---- MODULE Spec2Model ----
(***************************************************************************)
(* Model of the TeachMe backend's chat orchestration:                      *)
(*   - routes/assistant_chats.py  send_message (rate limiter, poll loop,   *)
(*     tool dispatch, reconciler)                                          *)
(*   - routes/assistants.py       create_or_get_thread                     *)
(*   - service/session_service.py thread mapping in Redis                  *)
(* Time inside send_message is counted in sixteenths of a second, so that  *)
(* the delays 0.5, 0.75, 1.125, 1.6875, 2.0 are all integers.              *)
(***************************************************************************)
EXTENDS Integers, Sequences, FiniteSets, TLC

(* ------------------------------ bounds --------------------------------- *)
MaxSends == 6          \* send_message requests issued in one behaviour of SpecRate
MaxToolCalls == 2      \* tool calls carried by one requires_action
MaxEmit == 1           \* assistant messages the remote agent adds per run
MaxAudit == 1          \* tool rows the audit insert accepts per send
MaxTicks == 3          \* clock ticks in one behaviour of SpecMap
MaxCalls == 3          \* create_or_get_thread requests in one behaviour of SpecMap
MaxCreates == 2        \* remote threads created in one behaviour of SpecThreads
MaxToolSteps == 2      \* tool calls run in one behaviour of SpecTools

(* ------------------------- program constants --------------------------- *)
RL_BURST == 5                  \* "elif current > 5"
InitialDelay == 8              \* delay = 0.5      (x16)
MaxDelay == 32                 \* max_delay = 2.0  (x16)
Ceiling == 160                 \* "if total > 10"  (x16)
ListLimit == 20                \* messages.list(..., limit=20)
THREAD_TTL_SECONDS == 86400
TickSeconds == THREAD_TTL_SECONDS \div 2   \* granularity of the modelled clock

None == "None"
Users == {"u1", "u2"}
\* the callers that hold a session key: Users and a caller who holds no role
SessionUsers == Users \cup {"u3"}
Min(a, b) == IF a < b THEN a ELSE b

(* ------------------------------ text ----------------------------------- *)
(* A text is a sequence of tokens.  The greeting literal is one token, so  *)
(* Python's `lit in content` is "some token of content is the literal".    *)
GreetingLit == "Hello! How can I assist you today?"
IsSpace(tok) == tok \in {" ", "\n"}

RECURSIVE LStrip(_)
LStrip(s) == IF s # <<>> /\ IsSpace(Head(s)) THEN LStrip(Tail(s)) ELSE s

RECURSIVE RStrip(_)
RStrip(s) == IF s # <<>> /\ IsSpace(s[Len(s)]) THEN RStrip(SubSeq(s, 1, Len(s) - 1)) ELSE s

\* str.strip()
Strip(s) == RStrip(LStrip(s))

\* "\n".join(chunks)
RECURSIVE JoinNl(_)
JoinNl(chunks) ==
    IF chunks = <<>> THEN <<>>
    ELSE IF Len(chunks) = 1 THEN chunks[1]
    ELSE chunks[1] \o <<"\n">> \o JoinNl(Tail(chunks))

\* `"Hello! How can I assist you today?" in content`
ContainsGreeting(content) == \E i \in 1..Len(content) : content[i] = GreetingLit

\* text_chunks of a message: the values of its parts of type "text"
RECURSIVE TextChunks(_)
TextChunks(parts) ==
    IF parts = <<>> THEN <<>>
    ELSE IF Head(parts).type = "text"
         THEN <<Head(parts).value>> \o TextChunks(Tail(parts))
         ELSE TextChunks(Tail(parts))

\* content = "\n".join(text_chunks).strip()
MsgText(msg) == Strip(JoinNl(TextChunks(msg.content)))

TextPart(v) == [type |-> "text", value |-> v]
ImagePart == [type |-> "image_file", value |-> <<>>]

(* --------------------------- tool names -------------------------------- *)
(* A tool name is a sequence of characters, so that normalisation is       *)
(* computed character by character as re.sub and str.lower do.             *)
LowerLetters == <<"a","b","c","d","e","f","g","h","i","j","k","l","m",
                  "n","o","p","q","r","s","t","u","v","w","x","y","z">>
UpperLetters == <<"A","B","C","D","E","F","G","H","I","J","K","L","M",
                  "N","O","P","Q","R","S","T","U","V","W","X","Y","Z">>
DigitChars == {"0","1","2","3","4","5","6","7","8","9"}

\* str.lower() on one character
LowerChar(c) ==
    IF \E i \in 1..26 : UpperLetters[i] = c
    THEN LowerLetters[CHOOSE i \in 1..26 : UpperLetters[i] = c]
    ELSE c

\* the character class [a-z0-9]
IsAlnum(c) == (\E i \in 1..26 : LowerLetters[i] = c) \/ c \in DigitChars

\* re.sub(r"[^a-z0-9]+", "_", s): every maximal run of other characters
\* becomes one underscore
RECURSIVE SubNonAlnum(_, _)
SubNonAlnum(s, inRun) ==
    IF s = <<>> THEN <<>>
    ELSE IF IsAlnum(Head(s)) THEN <<Head(s)>> \o SubNonAlnum(Tail(s), FALSE)
    ELSE IF inRun THEN SubNonAlnum(Tail(s), TRUE)
    ELSE <<"_">> \o SubNonAlnum(Tail(s), TRUE)

\* norm = re.sub(r"[^a-z0-9]+", "_", str(fname).strip().lower())
NormName(fname) ==
    SubNonAlnum([i \in 1..Len(Strip(fname)) |-> LowerChar(Strip(fname)[i])], FALSE)

N_create_course == <<"c","r","e","a","t","e","_","c","o","u","r","s","e">>
N_createcourse == <<"c","r","e","a","t","e","c","o","u","r","s","e">>
N_get_me == <<"g","e","t","_","m","e">>
N_me == <<"m","e">>
N_generate_invite_link ==
    <<"g","e","n","e","r","a","t","e","_","i","n","v","i","t","e","_","l","i","n","k">>
N_generateinvitelink ==
    <<"g","e","n","e","r","a","t","e","i","n","v","i","t","e","l","i","n","k">>

N_invite_student == <<"i","n","v","i","t","e","_","s","t","u","d","e","n","t">>
N_invitestudent == <<"i","n","v","i","t","e","s","t","u","d","e","n","t">>
N_switch_role == <<"s","w","i","t","c","h","_","r","o","l","e">>
N_switchrole == <<"s","w","i","t","c","h","r","o","l","e">>
N_create_organization ==
    <<"c","r","e","a","t","e","_","o","r","g","a","n","i","z","a","t","i","o","n">>
N_createorganisation ==
    <<"c","r","e","a","t","e","o","r","g","a","n","i","s","a","t","i","o","n">>
N_create_org ==
    <<"c","r","e","a","t","e","_","o","r","g">>
N_createorganization ==
    <<"c","r","e","a","t","e","o","r","g","a","n","i","z","a","t","i","o","n">>
N_invite_org_admin ==
    <<"i","n","v","i","t","e","_","o","r","g","_","a","d","m","i","n">>
N_inviteorgadmin ==
    <<"i","n","v","i","t","e","o","r","g","a","d","m","i","n">>
N_invite_teacher ==
    <<"i","n","v","i","t","e","_","t","e","a","c","h","e","r">>
N_inviteteacher ==
    <<"i","n","v","i","t","e","t","e","a","c","h","e","r">>
N_invite_org_teacher ==
    <<"i","n","v","i","t","e","_","o","r","g","_","t","e","a","c","h","e","r">>
N_inviteorgteacher ==
    <<"i","n","v","i","t","e","o","r","g","t","e","a","c","h","e","r">>

(* ----------------------- dictionaries and JSON ------------------------- *)
\* A parsed arguments object is a record over ArgKeys; a key the JSON
\* object does not carry reads None, as dict.get does.
ArgKeys == {"org_id", "title", "name", "invitee_email", "email", "role", "course_id"}
EmptyDict == [k \in ArgKeys |-> None]
\* dict.get(key)
Get(d, key) == d[key]
\* Python truthiness of an optional string
Falsy(v) == v \in {None, ""}
\* a or b
Or(a, b) == IF Falsy(a) THEN b ELSE a

\* tc.function.arguments is a JSON text: valid says whether json.loads
\* accepts it, obj is the object it parses to
JsonText(d) == [valid |-> TRUE, obj |-> d]
BadJson == [valid |-> FALSE, obj |-> EmptyDict]

\* json.dumps(result_obj): the serialised text of each result shape
Dumps(obj) ==
    IF DOMAIN obj = {"error"} THEN "{\"error\": \"" \o obj.error \o "\"}"
    ELSE IF DOMAIN obj = {"ok", "error"}
         THEN "{\"ok\": false, \"error\": \"" \o obj.error \o "\"}"
    ELSE IF DOMAIN obj = {"ok", "course"}
         THEN "{\"ok\": true, \"course\": {\"org_id\": \"" \o obj.course.org_id
              \o "\", \"title\": \"" \o obj.course.title \o "\"}}"
    ELSE IF DOMAIN obj = {"ok", "organization"}
         THEN "{\"ok\": true, \"organization\": {\"name\": \"" \o obj.organization.name
              \o "\", \"created_by\": \"" \o obj.organization.created_by \o "\"}}"
    ELSE IF DOMAIN obj = {"ok", "invite", "email_sent"}
         THEN "{\"ok\": true, \"invite\": {\"inviter\": \"" \o obj.invite.inviter
              \o "\", \"invitee_email\": \"" \o obj.invite.invitee_email
              \o "\", \"role\": \"" \o obj.invite.role
              \o "\", \"org_id\": \"" \o obj.invite.org_id
              \o "\", \"status\": \"pending\"}, \"email_sent\": "
              \o (IF obj.email_sent THEN "true" ELSE "false") \o "}"
    ELSE IF DOMAIN obj = {"ok", "message", "course_id", "course_name", "email", "email_sent",
                          "enrollment_link"}
         THEN "{\"ok\": true, \"message\": \"" \o obj.message
              \o "\", \"course_id\": \"" \o obj.course_id
              \o "\", \"course_name\": \"" \o obj.course_name
              \o "\", \"email\": \"" \o obj.email
              \o "\", \"email_sent\": " \o (IF obj.email_sent THEN "true" ELSE "false")
              \o ", \"enrollment_link\": \"" \o obj.enrollment_link \o "\"}"
    ELSE IF DOMAIN obj = {"ok", "active_role"}
         THEN "{\"ok\": true, \"active_role\": "
              \o (IF obj.active_role = None THEN "null"
                  ELSE "\"" \o obj.active_role \o "\"") \o "}"
    ELSE "{\"user_id\": \"" \o obj.user_id \o "\", \"profile\": {}, \"roles\": []}"

(* ------------------------- relational store ---------------------------- *)
\* organization_memberships rows
Memberships == {[user_id |-> "u1", org_id |-> "o1", role |-> "teacher"],
                [user_id |-> "u2", org_id |-> "o2", role |-> "organization_admin"]}
\* user_roles rows (global roles)
UserRoleRows == {[user_id |-> "u2", role |-> "super_admin"]}
\* assistants rows
AssistantRows == {[id |-> "asst_a", org_id |-> None], [id |-> "asst_b", org_id |-> None]}
\* enrollments rows
Enrollments == {}

\* .select("org_id").eq("user_id", u).eq("role", r).limit(1)
MembershipOrg(u, r) ==
    IF \E m \in Memberships : m.user_id = u /\ m.role = r
    THEN (CHOOSE m \in Memberships : m.user_id = u /\ m.role = r).org_id
    ELSE None

\* .select("role").eq("user_id", u).eq("org_id", o).limit(1)
MembershipRole(u, o) ==
    IF \E m \in Memberships : m.user_id = u /\ m.org_id = o
    THEN (CHOOSE m \in Memberships : m.user_id = u /\ m.org_id = o).role
    ELSE None

\* (session or {}).get("org_id"): neither build_session_payload nor
\* switch_role writes an "org_id" key into the session
SessionOrgId(u) == None

(* ------------------------------ sessions ------------------------------- *)
\* state the tool handlers read
VARIABLES
    sessions,                  \* Redis keys session:<user>
    profiles,                  \* profiles.active_role per user
    opa,                       \* what the OPA policy service answers
    mail_ok                    \* whether the mail service delivers

RECURSIVE SetToSeq(_)
SetToSeq(S) == IF S = {} THEN <<>>
               ELSE LET x == CHOOSE y \in S : TRUE IN <<x>> \o SetToSeq(S \ {x})

\* get_user_roles: the global roles, then the organisation memberships
GetUserRoles(u) ==
    SetToSeq({[scope |-> "global", role |-> r.role, org_id |-> None] :
                 r \in {x \in UserRoleRows : x.user_id = u}})
    \o SetToSeq({[scope |-> "org", role |-> m.role, org_id |-> m.org_id] :
                 m \in {x \in Memberships : x.user_id = u}})

\* build_session_payload: active_role is the saved role when the user still
\* holds it, else the first role held, else "student"
BuildSessionPayload(u, saved_role) ==
    LET roles == GetUserRoles(u)
        role_names == [i \in 1..Len(roles) |-> roles[i].role]
    IN  [present |-> TRUE,
         roles |-> roles,
         active_role |-> IF \E i \in 1..Len(role_names) : role_names[i] = saved_role
                         THEN saved_role
                         ELSE IF role_names # <<>> THEN role_names[1] ELSE "student",
         active_org_id |-> None]

(* --------------------------- tool handlers ----------------------------- *)
\* "await get_session(user_id) or await build_session_payload(user_id)"
SessionOrBuild(u) ==
    IF sessions[u].present THEN sessions[u] ELSE BuildSessionPayload(u, profiles[u])

\* str(invitee_email).lower() on the addresses the requests carry
LowerStr(e) == IF e = "Bob@x.org" THEN "bob@x.org" ELSE e

\* rows a handler adds to invites and organizations, the emails it sends and
\* the values it writes to the caller's profiles.active_role
NoFx == [invites |-> <<>>, organizations |-> <<>>, emails |-> <<>>, profile_roles |-> <<>>]

\* functions/organization_functions.py create_organization without the
\* "user_role != super_admin" test: the OPA answer alone decides
create_organization_opa_only(user_id, name) ==
    LET user_role == SessionOrBuild(user_id).active_role
        org == [name |-> name, created_by |-> user_id]
    IN  IF Falsy(user_role) THEN [result |-> [error |-> "No active role"], fx |-> NoFx]
        ELSE IF opa = "deny"
        THEN [result |-> [error |-> "Forbidden: insufficient permissions to create organization"],
              fx |-> NoFx]
        ELSE [result |-> [ok |-> TRUE, organization |-> org],
              fx |-> [NoFx EXCEPT !.organizations = <<org>>]]

\* functions/organization_functions.py create_organization
create_organization(user_id, name) ==
    LET user_role == SessionOrBuild(user_id).active_role
        org == [name |-> name, created_by |-> user_id]
    IN  IF Falsy(user_role) THEN [result |-> [error |-> "No active role"], fx |-> NoFx]
        ELSE IF opa = "deny"
        THEN [result |-> [error |-> "Forbidden: insufficient permissions to create organization"],
              fx |-> NoFx]
        ELSE IF user_role # "super_admin"
        THEN [result |-> [error |-> "Only super_admin can create organizations"], fx |-> NoFx]
        ELSE [result |-> [ok |-> TRUE, organization |-> org],
              fx |-> [NoFx EXCEPT !.organizations = <<org>>]]

\* invite_organization_admin with the membership query filtered by user only:
\* an organization_admin of any org passes
invite_organization_admin_any_org(user_id, org_id, invitee_email, role) ==
    LET user_role == SessionOrBuild(user_id).active_role
        is_super_admin == user_role = "super_admin"
        is_org_admin == /\ ~is_super_admin
                        /\ \E m \in Memberships :
                              m.user_id = user_id /\ m.role = "organization_admin"
        allowed_roles == IF is_super_admin THEN {"organization_admin"}
                         ELSE IF is_org_admin THEN {"organization_admin", "teacher"}
                         ELSE {}
        invite == [inviter |-> user_id, invitee_email |-> LowerStr(invitee_email),
                   role |-> role, org_id |-> org_id, status |-> "pending"]
    IN  IF Falsy(invitee_email)
        THEN [result |-> [error |-> "invitee_email is required"], fx |-> NoFx]
        ELSE IF Falsy(user_role) THEN [result |-> [error |-> "No active role"], fx |-> NoFx]
        ELSE IF opa = "deny"
        THEN [result |-> [error |-> "Forbidden: insufficient permissions to invite to this organization"],
              fx |-> NoFx]
        ELSE IF role \notin allowed_roles
        THEN [result |-> [error |-> "Invalid role for organization invite"], fx |-> NoFx]
        ELSE [result |-> [ok |-> TRUE, invite |-> invite, email_sent |-> mail_ok],
              fx |-> [NoFx EXCEPT !.invites = <<invite>>,
                                  !.emails = <<[to |-> invitee_email, role |-> role]>>]]

\* functions/organization_functions.py invite_organization_admin
invite_organization_admin(user_id, org_id, invitee_email, role) ==
    LET user_role == SessionOrBuild(user_id).active_role
        is_super_admin == user_role = "super_admin"
        is_org_admin == /\ ~is_super_admin
                        /\ \E m \in Memberships :
                              /\ m.user_id = user_id
                              /\ m.org_id = org_id
                              /\ m.role = "organization_admin"
        allowed_roles == IF is_super_admin THEN {"organization_admin"}
                         ELSE IF is_org_admin THEN {"organization_admin", "teacher"}
                         ELSE {}
        invite == [inviter |-> user_id, invitee_email |-> LowerStr(invitee_email),
                   role |-> role, org_id |-> org_id, status |-> "pending"]
    IN  IF Falsy(invitee_email)
        THEN [result |-> [error |-> "invitee_email is required"], fx |-> NoFx]
        ELSE IF Falsy(user_role) THEN [result |-> [error |-> "No active role"], fx |-> NoFx]
        ELSE IF opa = "deny"
        THEN [result |-> [error |-> "Forbidden: insufficient permissions to invite to this organization"],
              fx |-> NoFx]
        ELSE IF role \notin allowed_roles
        THEN [result |-> [error |-> "Invalid role for organization invite"], fx |-> NoFx]
        ELSE [result |-> [ok |-> TRUE, invite |-> invite, email_sent |-> mail_ok],
              fx |-> [NoFx EXCEPT !.invites = <<invite>>,
                                  !.emails = <<[to |-> invitee_email, role |-> role]>>]]

\* an endpoint is the sequence of its path pieces; "x in endpoint" is
\* "x is one of the pieces"
InEndpoint(piece, endpoint) == \E i \in 1..Len(endpoint) : endpoint[i] = piece

\* _make_internal_api_call(user_id, endpoint, "POST", json_data)
MakeInternalApiCall(user_id, endpoint, json_data) ==
    IF endpoint = <<"/organizations">>
    THEN IF Falsy(Get(json_data, "name"))
         THEN [result |-> [error |-> "name is required"], fx |-> NoFx]
         ELSE create_organization(user_id, Get(json_data, "name"))
    ELSE IF InEndpoint("/organizations/", endpoint) /\ InEndpoint("/teacher", endpoint)
    THEN IF Falsy(Get(json_data, "invitee_email"))
         THEN [result |-> [error |-> "invitee_email is required"], fx |-> NoFx]
         ELSE invite_organization_admin(user_id, endpoint[2],
                                        Get(json_data, "invitee_email"), "teacher")
    ELSE IF InEndpoint("/organizations/", endpoint) /\ InEndpoint("/invites", endpoint)
    THEN IF Falsy(Get(json_data, "invitee_email"))
         THEN [result |-> [error |-> "invitee_email is required"], fx |-> NoFx]
         ELSE invite_organization_admin(user_id, endpoint[2],
                                        Get(json_data, "invitee_email"), "organization_admin")
    ELSE [result |-> [error |-> "Endpoint not implemented for direct calls"], fx |-> NoFx]

\* CreateCourseHandler without the "Check if course already exists" query
CreateCourseHandlerNoCheck(user_id, fargs, th, crs) ==
    LET org0 == Get(fargs, "org_id")
        org1 == IF Falsy(org0) THEN SessionOrgId(user_id) ELSE org0
        org2 == IF Falsy(org0) /\ Falsy(org1) THEN MembershipOrg(user_id, "teacher") ELSE org1
        org_id == IF Falsy(org0) /\ Falsy(org2) THEN Or(th.org_id, org2) ELSE org2
        title == Or(Get(fargs, "title"), Get(fargs, "name"))
        fail(msg) == [raised |-> TRUE, result |-> [error |-> msg],
                      courses |-> crs, forced |-> None, fx |-> NoFx]
    IN  IF Falsy(title) THEN fail("Course name/title is required")
        ELSE IF Falsy(org_id) THEN fail("Organization not found in session.")
        ELSE IF MembershipRole(user_id, org_id) \notin {"teacher", "organization_admin"}
             THEN fail("Only teachers or org admins can create courses")
        ELSE [raised |-> FALSE,
              result |-> [ok |-> TRUE, course |-> [org_id |-> org_id, title |-> title]],
              courses |-> crs \cup {[id |-> "c" \o ToString(Cardinality(crs) + 1),
                                     org_id |-> org_id, title |-> title,
                                     created_by |-> user_id]},
              forced |-> "Course '" \o title \o "' created successfully!",
              fx |-> NoFx]

\* the create_course branch of the dispatcher
CreateCourseHandler(user_id, fargs, th, crs) ==
    LET org0 == Get(fargs, "org_id")
        org1 == IF Falsy(org0) THEN SessionOrgId(user_id) ELSE org0
        org2 == IF Falsy(org0) /\ Falsy(org1) THEN MembershipOrg(user_id, "teacher") ELSE org1
        org_id == IF Falsy(org0) /\ Falsy(org2) THEN Or(th.org_id, org2) ELSE org2
        title == Or(Get(fargs, "title"), Get(fargs, "name"))
        fail(msg) == [raised |-> TRUE, result |-> [error |-> msg],
                      courses |-> crs, forced |-> None, fx |-> NoFx]
    IN  IF Falsy(title) THEN fail("Course name/title is required")
        ELSE IF Falsy(org_id) THEN fail("Organization not found in session.")
        ELSE IF \E c \in crs : c.title = title /\ c.org_id = org_id
             THEN fail("Course '" \o title \o "' already exists in your organization")
        ELSE IF MembershipRole(user_id, org_id) \notin {"teacher", "organization_admin"}
             THEN fail("Only teachers or org admins can create courses")
        ELSE [raised |-> FALSE,
              result |-> [ok |-> TRUE, course |-> [org_id |-> org_id, title |-> title]],
              courses |-> crs \cup {[id |-> "c" \o ToString(Cardinality(crs) + 1),
                                     org_id |-> org_id, title |-> title,
                                     created_by |-> user_id]},
              forced |-> "Course '" \o title \o "' created successfully!",
              fx |-> NoFx]

\* the invite_student branch of the dispatcher
InviteStudentHandler(user_id, fargs, crs) ==
    LET course_id == Get(fargs, "course_id")
        email == Get(fargs, "email")
        rows == {c \in crs : c.id = course_id}
        course == CHOOSE c \in rows : TRUE
        is_course_creator == course.created_by = user_id
        is_org_admin == ~is_course_creator
                        /\ \E m \in Memberships : /\ m.user_id = user_id
                                                  /\ m.org_id = course.org_id
                                                  /\ m.role = "organization_admin"
        email_sent == mail_ok
        fail(msg) == [raised |-> TRUE, result |-> [error |-> msg],
                      courses |-> crs, forced |-> None, fx |-> NoFx]
    IN  IF Falsy(course_id) \/ Falsy(email) THEN fail("course_id and email are required")
        ELSE IF rows = {} THEN fail("Course not found")
        ELSE IF ~(is_course_creator \/ is_org_admin)
             THEN fail("Only course creators or organization admins can invite students")
        ELSE [raised |-> FALSE,
              result |-> [ok |-> TRUE,
                          message |-> IF email_sent
                                      THEN "Course enrollment invitation sent to " \o email
                                      ELSE "Failed to send email to " \o email,
                          course_id |-> course_id, course_name |-> course.title,
                          email |-> email, email_sent |-> email_sent,
                          enrollment_link |-> "/courses/enroll?token=" \o course_id],
              courses |-> crs,
              forced |-> "Student invitation sent to " \o email
                         \o "! They can now accept the invitation to enroll in the course.",
              fx |-> [NoFx EXCEPT !.emails = <<[to |-> email, role |-> "student",
                                                sent |-> email_sent]>>]]

\* the invite_org_admin branch of the dispatcher
InviteOrgAdminHandler(user_id, fargs, crs) ==
    LET org_id == Get(fargs, "org_id")
        invitee_email == Get(fargs, "invitee_email")
        r == MakeInternalApiCall(user_id, <<"/organizations/", org_id, "/invites">>,
                                 [EmptyDict EXCEPT !.invitee_email = invitee_email])
    IN  IF Falsy(org_id) \/ Falsy(invitee_email)
        THEN [raised |-> TRUE, result |-> [error |-> "org_id and invitee_email required"],
              courses |-> crs, forced |-> None, fx |-> NoFx]
        ELSE [raised |-> FALSE, result |-> r.result, courses |-> crs, forced |-> None,
              fx |-> r.fx]

\* InviteTeacherHandler with the confirmation set whatever the call returned
InviteTeacherHandlerAlwaysConfirm(user_id, fargs, th, crs) ==
    LET org0 == Get(fargs, "org_id")
        org1 == IF Falsy(org0) THEN th.org_id ELSE org0
        org_id == IF Falsy(org1) THEN SessionOrgId(user_id) ELSE org1
        invitee_email == Or(Get(fargs, "invitee_email"), Get(fargs, "email"))
        r == MakeInternalApiCall(user_id, <<"/organizations/", org_id, "/invites", "/teacher">>,
                                 [EmptyDict EXCEPT !.invitee_email = invitee_email])
    IN  IF Falsy(org_id) \/ Falsy(invitee_email)
        THEN [raised |-> TRUE, result |-> [error |-> "org_id and invitee_email required"],
              courses |-> crs, forced |-> None, fx |-> NoFx]
        ELSE [raised |-> FALSE, result |-> r.result, courses |-> crs,
              forced |-> "Invitation sent to " \o invitee_email \o " for org "
                         \o org_id \o " as Teacher.",
              fx |-> r.fx]

\* the invite_teacher branch of the dispatcher
InviteTeacherHandler(user_id, fargs, th, crs) ==
    LET org0 == Get(fargs, "org_id")
        org1 == IF Falsy(org0) THEN th.org_id ELSE org0
        org_id == IF Falsy(org1) THEN SessionOrgId(user_id) ELSE org1
        invitee_email == Or(Get(fargs, "invitee_email"), Get(fargs, "email"))
        r == MakeInternalApiCall(user_id, <<"/organizations/", org_id, "/invites", "/teacher">>,
                                 [EmptyDict EXCEPT !.invitee_email = invitee_email])
    IN  IF Falsy(org_id) \/ Falsy(invitee_email)
        THEN [raised |-> TRUE, result |-> [error |-> "org_id and invitee_email required"],
              courses |-> crs, forced |-> None, fx |-> NoFx]
        ELSE [raised |-> FALSE, result |-> r.result, courses |-> crs,
              forced |-> IF "ok" \in DOMAIN r.result /\ r.result.ok = TRUE
                         THEN "Invitation sent to " \o invitee_email \o " for org "
                              \o org_id \o " as Teacher."
                         ELSE None,
              fx |-> r.fx]

\* the create_organization branch of the dispatcher
CreateOrganizationHandler(user_id, fargs, crs) ==
    LET name == Get(fargs, "name")
        r == MakeInternalApiCall(user_id, <<"/organizations">>,
                                 [EmptyDict EXCEPT !.name = name])
    IN  IF Falsy(name)
        THEN [raised |-> TRUE, result |-> [error |-> "name is required"],
              courses |-> crs, forced |-> None, fx |-> NoFx]
        ELSE [raised |-> FALSE, result |-> r.result, courses |-> crs, forced |-> None,
              fx |-> r.fx]

\* the switch_role branch of the dispatcher: the new role goes to the
\* caller's profile row, unvalidated; the session is not touched
SwitchRoleHandler(fargs, crs) ==
    LET new_role == Get(fargs, "role")
    IN  [raised |-> FALSE, result |-> [ok |-> TRUE, active_role |-> new_role],
         courses |-> crs, forced |-> None,
         fx |-> IF Falsy(new_role) THEN NoFx
                ELSE [NoFx EXCEPT !.profile_roles = <<new_role>>]]

\* the if/elif chain on norm, inside "try: ... except Exception as e:
\* result_obj = {"error": str(e)}"
Dispatch(user_id, norm, fname, fargs, th, crs) ==
    LET plain(obj) == [raised |-> FALSE, result |-> obj, courses |-> crs,
                       forced |-> None, fx |-> NoFx]
    IN  IF norm \in {N_create_organization, N_createorganisation, N_create_org,
                     N_createorganization}
        THEN CreateOrganizationHandler(user_id, fargs, crs)
        ELSE IF norm \in {N_get_me, N_me}
        THEN plain([user_id |-> user_id, profile |-> "{}", roles |-> "[]"])
        ELSE IF norm \in {N_switch_role, N_switchrole}
        THEN SwitchRoleHandler(fargs, crs)
        ELSE IF norm \in {N_create_course, N_createcourse}
        THEN CreateCourseHandler(user_id, fargs, th, crs)
        ELSE IF norm \in {N_invite_student, N_invitestudent}
        THEN InviteStudentHandler(user_id, fargs, crs)
        ELSE IF norm \in {N_invite_org_admin, N_inviteorgadmin}
        THEN InviteOrgAdminHandler(user_id, fargs, crs)
        ELSE IF norm \in {N_invite_teacher, N_inviteteacher, N_invite_org_teacher,
                          N_inviteorgteacher}
        THEN InviteTeacherHandler(user_id, fargs, th, crs)
        ELSE IF norm \in {N_generate_invite_link, N_generateinvitelink}
        THEN plain([ok |-> FALSE, error |-> "Not implemented in tool bridge; call API endpoint"])
        ELSE plain([error |-> "Unknown tool"])

\* RunToolCall with every output tagged with the id of the batch's first call
RunToolCallFirstId(user_id, tc, th, crs) ==
    LET parsed == tc.arguments.valid
        fargs == IF parsed THEN tc.arguments.obj ELSE EmptyDict
        norm == IF parsed THEN NormName(tc.name) ELSE <<>>
        append(h) == [raised |-> h.raised, result |-> h.result, courses |-> h.courses,
                      forced |-> h.forced, fx |-> h.fx,
                      output |-> [tool_call_id |-> "call_1", output |-> Dumps(h.result)]]
    IN  append(Dispatch(user_id, norm, tc.name, fargs, th, crs))

\* one iteration of "for tc in tool_calls": parse, dispatch, append output
RunToolCall(user_id, tc, th, crs) ==
    LET parsed == tc.arguments.valid
        fargs == IF parsed THEN tc.arguments.obj ELSE EmptyDict
        norm == IF parsed THEN NormName(tc.name) ELSE <<>>
        append(h) == [raised |-> h.raised, result |-> h.result, courses |-> h.courses,
                      forced |-> h.forced, fx |-> h.fx,
                      output |-> [tool_call_id |-> tc.id, output |-> Dumps(h.result)]]
    IN  append(Dispatch(user_id, norm, tc.name, fargs, th, crs))

\* ProcessBatch without the inner try/except: a raising handler ends the loop
RECURSIVE ProcessBatchAbort(_, _, _, _)
ProcessBatchAbort(user_id, tcs, th, acc) ==
    IF tcs = <<>> THEN acc
    ELSE LET step(r) ==
                 IF r.raised THEN [acc EXCEPT !.raised = @ \cup {Len(acc.outputs) + 1}]
                 ELSE ProcessBatchAbort(user_id, Tail(tcs), th,
                        [outputs |-> Append(acc.outputs, r.output),
                         results |-> Append(acc.results, r.result),
                         raised  |-> acc.raised,
                         courses |-> r.courses,
                         fx |-> [k \in DOMAIN NoFx |-> acc.fx[k] \o r.fx[k]],
                         forced  |-> IF r.forced # None THEN r.forced ELSE acc.forced])
         IN  step(RunToolCall(user_id, Head(tcs), th, acc.courses))

\* the whole loop over the batch, threading the store and the override
RECURSIVE ProcessBatch(_, _, _, _)
ProcessBatch(user_id, tcs, th, acc) ==
    IF tcs = <<>> THEN acc
    ELSE LET step(r) ==
                 ProcessBatch(user_id, Tail(tcs), th,
                    [outputs |-> Append(acc.outputs, r.output),
                     results |-> Append(acc.results, r.result),
                     raised  |-> IF r.raised THEN acc.raised \cup {Len(acc.outputs) + 1}
                                             ELSE acc.raised,
                     courses |-> r.courses,
                     fx |-> [k \in DOMAIN NoFx |-> acc.fx[k] \o r.fx[k]],
                     forced  |-> IF r.forced # None THEN r.forced ELSE acc.forced])
         IN  step(RunToolCall(user_id, Head(tcs), th, acc.courses))

(* ----------------------------- reconciler ------------------------------ *)
RECURSIVE Reverse(_)
Reverse(s) == IF s = <<>> THEN <<>> ELSE Append(Reverse(Tail(s)), Head(s))

\* messages.list(thread_id, order="desc", limit=20).data
ListMessages(msgs) == SubSeq(Reverse(msgs), 1, Min(ListLimit, Len(msgs)))

\* FirstNonGreeting with the greeting test written as an equality
RECURSIVE FirstNonGreetingEq(_)
FirstNonGreetingEq(data) ==
    IF data = <<>> THEN <<>>
    ELSE LET msg == Head(data) IN
         IF msg.role = "assistant" /\ MsgText(msg) # <<>> /\ MsgText(msg) # <<GreetingLit>>
         THEN <<[openai_message_id |-> msg.id, content |-> MsgText(msg)]>>
         ELSE FirstNonGreetingEq(Tail(data))

\* first loop: the first assistant message with text that does not
\* contain the greeting, then break
RECURSIVE FirstNonGreeting(_)
FirstNonGreeting(data) ==
    IF data = <<>> THEN <<>>
    ELSE LET msg == Head(data) IN
         IF msg.role = "assistant" /\ MsgText(msg) # <<>> /\ ~ContainsGreeting(MsgText(msg))
         THEN <<[openai_message_id |-> msg.id, content |-> MsgText(msg)]>>
         ELSE FirstNonGreeting(Tail(data))

\* second loop: the first assistant message with text, then break
RECURSIVE FirstAssistant(_)
FirstAssistant(data) ==
    IF data = <<>> THEN <<>>
    ELSE LET msg == Head(data) IN
         IF msg.role = "assistant" /\ MsgText(msg) # <<>>
         THEN <<[openai_message_id |-> msg.id, content |-> MsgText(msg)]>>
         ELSE FirstAssistant(Tail(data))

\* Reconcile without "if not new_assistant_msgs": the fallback loop always runs
ReconcileAlwaysFallback(data) == FirstNonGreeting(data) \o FirstAssistant(data)

\* new_assistant_msgs after both loops
Reconcile(data) ==
    IF FirstNonGreeting(data) # <<>> THEN FirstNonGreeting(data) ELSE FirstAssistant(data)

(* ------------------------------ poll loop ------------------------------ *)
\* delay = min(max_delay, delay * 1.5); the quotient is exact whenever it
\* is below the cap
NextDelay(d) == Min(MaxDelay, (d * 3) \div 2)

Terminal == {"completed", "failed", "cancelled", "expired"}
NonTerminal == {"queued", "in_progress", "requires_action"}

\* the rate limiter's except clause: "except Exception: pass" catches every
\* class derived from Exception, and fastapi.HTTPException is one
ExceptionSubclasses == {"Exception", "HTTPException", "RuntimeError", "ConnectionError"}
CaughtByExceptException(cls) == cls \in ExceptionSubclasses

(* ------------------------------- state --------------------------------- *)
VARIABLES
    rl,                        \* Redis keys rl:send:<user>: count and whether a TTL is set
    chat_threads,              \* table chat_threads
    chat_messages,             \* table chat_messages, in insertion order
    courses,                   \* table courses
    remote_msgs,               \* messages of the remote (OpenAI) thread, oldest first
    pc,                        \* position of the send_message request in flight
    user_id,                   \* its caller
    current,                   \* result of redis.incr for it
    status,                    \* last run object returned by runs.retrieve
    outputs,                   \* tool outputs built for the last requires_action
    results,                   \* result_obj of each tool call of that batch
    raised,                    \* positions of that batch whose handler raised
    forced_assistant_message,  \* deterministic override
    delay,                     \* poll delay
    total,                     \* time slept so far
    calls,                     \* remote calls made by this send, by kind
    submitted,                 \* tool_outputs argument of the last submit_tool_outputs
    resp,                      \* HTTP response of the last send
    sends,                     \* sends issued so far
    emitted,                   \* assistant messages the remote added during this run
    thread_map,                \* Redis keys thread:<user>:<assistant>
    remote_threads,            \* threads created at the remote service
    now,                       \* wall clock, seconds
    ct_resp,                   \* last create_or_get_thread response per (user, assistant)
    invites,                   \* table invites, in insertion order
    organizations,             \* table organizations, in insertion order
    emails,                    \* invitation emails handed to the mail service
    last,                      \* the last thread/session/tool request and its response
    cancelled,                 \* the send_message request's task has been cancelled
    gs,                        \* a get_session call between its read and its write
    opa_resp,                  \* the JSON body of the policy service's last answer
    ag                         \* SuperAdminAgent._handle_run_with_functions and its run

sendVars == <<pc, user_id, current, status, outputs, results, raised,
              forced_assistant_message, delay, total, calls, submitted, resp,
              sends, emitted>>
storeVars == <<rl, chat_threads, chat_messages, courses, remote_msgs>>
mapVars == <<thread_map, remote_threads, now, ct_resp>>
fxVars == <<invites, organizations, emails>>
sideVars == <<gs, opa_resp, ag>>
envVars == <<sessions, profiles, opa, mail_ok, last, cancelled, sideVars>>
auxVars == <<fxVars, envVars>>
vars == <<rl, chat_threads, chat_messages, courses, remote_msgs, pc, user_id,
          current, status, outputs, results, raised, forced_assistant_message,
          delay, total, calls, submitted, resp, sends, emitted, thread_map,
          remote_threads, now, ct_resp, sessions, profiles, invites,
          organizations, emails, opa, mail_ok, last, cancelled, gs, opa_resp, ag>>

Assistants == {"asst_a", "asst_b"}
Statuses == Terminal \cup NonTerminal
CallKinds == {"append", "run", "retrieve", "submit", "list"}
NoCalls == [k \in CallKinds |-> 0]
NoStatus == [status |-> None, tool_calls |-> <<>>]
NoResp == [status_code |-> 0, ok |-> FALSE, messages |-> <<>>, detail |-> ""]
NoMapping == [thread_id |-> None, expires |-> 0]
NoCtResp == [n |-> 0, status_code |-> 0, thread_id |-> None, created |-> FALSE, at |-> 0]
\* redis.get("session:<user>") returned None
NoSession == [present |-> FALSE, roles |-> <<>>, active_role |-> None,
              active_org_id |-> None]
NoLast == [op |-> None, user |-> None, target |-> None, status_code |-> 0, ok |-> FALSE,
           detail |-> ""]

\* JSON values: null, true/false, and objects (records of JSON values)
JNull == [t |-> "null"]
JBool(b) == [t |-> "bool", v |-> b]
JDict(items) == [t |-> "dict", items |-> items]

\* run_timeout of _handle_run_with_functions, in poll intervals of 1.0 s
AgTimeout == 120
\* no run is being handled
AgIdle == [pc |-> "idle", run |-> None, elapsed |-> 0, submits |-> 0, err |-> None]

\* no get_session call is between its read and its write
NoRead == [pc |-> "idle", user |-> None, data |-> NoSession]

\* raise HTTPException(status_code, detail)
HttpError(code, detail) ==
    [status_code |-> code, ok |-> FALSE, messages |-> <<>>, detail |-> detail]
\* return {"ok": True, "messages": msgs}
HttpOk(msgs) == [status_code |-> 200, ok |-> TRUE, messages |-> msgs, detail |-> ""]

\* what the remote agent may put into an assistant message
MsgContents ==
    { <<TextPart(<<"Done.">>)>>,
      <<TextPart(<<GreetingLit>>)>>,
      <<TextPart(<<GreetingLit, " ", "Done.">>)>>,
      <<ImagePart>> }
UserContent == <<TextPart(<<"hi">>)>>

\* the tool calls the remote agent may request
ToolCallShapes ==
    { [name |-> N_create_course, arguments |-> JsonText([EmptyDict EXCEPT !.title = "Algebra"])],
      [name |-> N_get_me, arguments |-> JsonText(EmptyDict)] }

\* required_action.submit_tool_outputs.tool_calls: the service numbers them
Batches ==
    UNION { { [i \in 1..k |-> [id |-> "call_" \o ToString(i), name |-> f[i].name,
                               arguments |-> f[i].arguments]] :
              f \in [1..k -> ToolCallShapes] } : k \in 1..MaxToolCalls }

\* what an earlier, completed send left behind: nothing, or one turn
Histories ==
    { [remote |-> <<>>, rows |-> <<>>],
      [remote |-> << [id |-> 1, role |-> "user", content |-> UserContent],
                     [id |-> 2, role |-> "assistant", content |-> <<TextPart(<<"Done.">>)>>] >>,
       rows |-> << [thread_id |-> "t1", role |-> "user", content |-> <<"hi">>,
                    openai_message_id |-> 1, tool_call |-> None, created_at |-> 0],
                   [thread_id |-> "t1", role |-> "assistant", content |-> <<"Done.">>,
                    openai_message_id |-> 2, tool_call |-> None, created_at |-> 0] >>] }

\* rows of chat_threads before the first request: a thread of u1 and a
\* legacy row written before the user_id column was filled
InitialThreads ==
    { [id |-> "t1", user_id |-> "u1", assistant_id |-> "asst_a", course_id |-> None,
       org_id |-> "o1", role |-> "teacher", openai_thread_id |-> "th_1",
       title |-> "New Chat", archived_at |-> None],
      [id |-> "t0", user_id |-> None, assistant_id |-> "asst_a", course_id |-> None,
       org_id |-> None, role |-> None, openai_thread_id |-> "th_0",
       title |-> "New Chat", archived_at |-> None] }

Init ==
    /\ rl = [u \in Users |-> [count |-> 0, ttl |-> FALSE]]
    /\ chat_threads = InitialThreads
    /\ \E h \in Histories : remote_msgs = h.remote /\ chat_messages = h.rows
    /\ courses = {}
    /\ pc = "idle"
    /\ user_id = None
    /\ current = 0
    /\ status = NoStatus
    /\ outputs = <<>>
    /\ results = <<>>
    /\ raised = {}
    /\ forced_assistant_message = None
    /\ delay = InitialDelay
    /\ total = 0
    /\ calls = NoCalls
    /\ submitted = <<>>
    /\ resp = NoResp
    /\ sends = 0
    /\ emitted = 0
    /\ thread_map = [k \in Users \X Assistants |-> NoMapping]
    /\ remote_threads = 0
    /\ now = 0
    /\ ct_resp = [k \in Users \X Assistants |-> NoCtResp]
    /\ sessions = [u \in SessionUsers |-> NoSession]
    /\ profiles = [u \in SessionUsers |-> None]
    /\ invites = <<>>
    /\ organizations = <<>>
    /\ emails = <<>>
    /\ opa = "allow"
    /\ mail_ok = TRUE
    /\ last = NoLast
    /\ cancelled = FALSE
    /\ gs = NoRead
    /\ opa_resp = JNull
    /\ ag = AgIdle

(* ---------------------------- send_message ----------------------------- *)
\* the thread row of the request (payload.thread_id is "t1")
Th == CHOOSE t \in chat_threads : t.id = "t1"
ThFound == (\E t \in chat_threads : t.id = "t1") /\ Th.user_id = user_id

Fail(code, detail) ==
    /\ resp' = HttpError(code, detail)
    /\ pc' = "idle"

\* current = await redis.incr(key)
SendIncr(u) ==
    /\ pc = "idle"
    /\ sends' = sends + 1
    /\ user_id' = u
    /\ current' = rl[u].count + 1
    /\ rl' = [rl EXCEPT ![u].count = @ + 1]
    /\ pc' = "rate_limit"
    /\ status' = NoStatus /\ outputs' = <<>> /\ results' = <<>> /\ raised' = {}
    /\ forced_assistant_message' = None
    /\ delay' = InitialDelay /\ total' = 0
    /\ calls' = NoCalls /\ submitted' = <<>> /\ resp' = NoResp /\ emitted' = 0
    /\ UNCHANGED <<chat_threads, chat_messages, courses, remote_msgs, mapVars, auxVars>>

\* the 429 leaves the handler only if the except clause around it lets it through
RateLimited == current > RL_BURST /\ ~CaughtByExceptException("HTTPException")

\* if current == 1: expire(key, 1) / elif current > 5: raise 429 (inside
\* try ... except Exception: pass), then the thread and assistant lookups
SendAdmit ==
    /\ pc = "rate_limit"
    /\ rl' = IF current = 1 THEN [rl EXCEPT ![user_id].ttl = TRUE] ELSE rl
    /\ IF RateLimited THEN Fail(429, "Rate limit exceeded")
       ELSE IF ~ThFound THEN Fail(404, "Thread not found")
       ELSE pc' = "append" /\ resp' = resp
    /\ UNCHANGED <<chat_threads, chat_messages, courses, remote_msgs, user_id,
                   current, status, outputs, results, raised,
                   forced_assistant_message, delay, total, calls, submitted,
                   sends, emitted, mapVars, auxVars>>

\* Redis drops the counter when its one-second TTL runs out
RlExpire(u) ==
    /\ rl[u].count > 0 /\ rl[u].ttl
    /\ rl' = [rl EXCEPT ![u] = [count |-> 0, ttl |-> FALSE]]
    /\ UNCHANGED <<chat_threads, chat_messages, courses, remote_msgs, sendVars, mapVars, auxVars>>

Bump(kind) == [calls EXCEPT ![kind] = @ + 1]
ToolRowsOfSend ==
    Cardinality({i \in 1..Len(chat_messages) :
                   chat_messages[i].role = "tool" /\ chat_messages[i].created_at = sends})

\* AppendMessage with the user row inserted before the remote call is made
AppendMessagePersistFirst(ok) ==
    /\ pc = "append"
    /\ calls' = Bump("append")
    /\ chat_messages' = Append(chat_messages,
           [thread_id |-> Th.id, role |-> "user", content |-> MsgText([content |-> UserContent]),
            openai_message_id |-> None, tool_call |-> None, created_at |-> sends])
    /\ IF ok
       THEN /\ remote_msgs' = Append(remote_msgs,
                   [id |-> Len(remote_msgs) + 1, role |-> "user", content |-> UserContent])
            /\ pc' = "start_run" /\ resp' = resp
       ELSE /\ Fail(500, "Chat send failed")
            /\ UNCHANGED remote_msgs
    /\ UNCHANGED <<rl, chat_threads, courses, user_id, current, status, outputs,
                   results, raised, forced_assistant_message, delay, total,
                   submitted, sends, emitted, mapVars, auxVars>>

\* openai.beta.threads.messages.create(role="user") and the insert of the
\* user row; an exception goes to "except Exception as e: raise 500"
AppendMessage(ok) ==
    /\ pc = "append"
    /\ calls' = Bump("append")
    /\ IF ok
       THEN /\ remote_msgs' = Append(remote_msgs,
                   [id |-> Len(remote_msgs) + 1, role |-> "user", content |-> UserContent])
            /\ chat_messages' = Append(chat_messages,
                   [thread_id |-> Th.id, role |-> "user", content |-> MsgText([content |-> UserContent]),
                    openai_message_id |-> Len(remote_msgs) + 1, tool_call |-> None,
                    created_at |-> sends])
            /\ pc' = "start_run" /\ resp' = resp
       ELSE /\ Fail(500, "Chat send failed")
            /\ UNCHANGED <<remote_msgs, chat_messages>>
    /\ UNCHANGED <<rl, chat_threads, courses, user_id, current, status, outputs,
                   results, raised, forced_assistant_message, delay, total,
                   submitted, sends, emitted, mapVars, auxVars>>

\* openai.beta.threads.runs.create(...), then the loop locals
StartRun(ok) ==
    /\ pc = "start_run"
    /\ calls' = Bump("run")
    /\ IF ok
       THEN /\ pc' = "poll" /\ resp' = resp
       ELSE Fail(500, "Chat send failed")
    /\ delay' = InitialDelay /\ total' = 0 /\ forced_assistant_message' = None
    /\ UNCHANGED <<storeVars, user_id, current, status, outputs, results, raised,
                   submitted, sends, emitted, mapVars, auxVars>>

\* the remote agent adds an assistant message to the thread while the run
\* is active
RemoteEmit(c) ==
    /\ pc = "poll"
    /\ emitted < MaxEmit
    /\ emitted' = emitted + 1
    /\ remote_msgs' = Append(remote_msgs,
           [id |-> Len(remote_msgs) + 1, role |-> "assistant", content |-> c])
    /\ UNCHANGED <<rl, chat_threads, chat_messages, courses, pc, user_id, current,
                   status, outputs, results, raised, forced_assistant_message,
                   delay, total, calls, submitted, resp, sends, mapVars, auxVars>>

\* Sleep without the ceiling test
SleepNoCeiling ==
    /\ total' = total + delay
    /\ delay' = NextDelay(delay)
    /\ pc' = "poll"

\* time.sleep(delay); total += delay; delay = min(...); if total > 10: break
Sleep ==
    /\ total' = total + delay
    /\ delay' = NextDelay(delay)
    /\ pc' = IF total + delay > Ceiling THEN "after_loop" ELSE "poll"

\* runs.retrieve raises: the send ends with a 500
PollFail ==
    /\ pc = "poll"
    /\ calls' = Bump("retrieve")
    /\ Fail(500, "Chat send failed")
    /\ UNCHANGED <<storeVars, user_id, current, status, outputs, results, raised,
                   forced_assistant_message, delay, total, submitted, sends,
                   emitted, mapVars, auxVars>>

\* one loop iteration that observes a status other than requires_action
PollStatus(st) ==
    /\ pc = "poll"
    /\ st # "requires_action"
    /\ calls' = Bump("retrieve")
    /\ status' = [status |-> st, tool_calls |-> <<>>]
    /\ IF st \in Terminal
       THEN pc' = "after_loop" /\ UNCHANGED <<delay, total>>
       ELSE Sleep
    /\ UNCHANGED <<storeVars, user_id, current, outputs, results, raised,
                   forced_assistant_message, submitted, resp, sends, emitted, mapVars, auxVars>>

\* the audit rows of a batch; the insert loop sits in one try, so a failing
\* insert ends it silently: n is the number of rows that got in
AuditRows(tcs, outs, n) ==
    [i \in 1..n |-> [thread_id |-> Th.id, role |-> "tool", content |-> None,
                     openai_message_id |-> None,
                     tool_call |-> [name |-> tcs[i].name, arguments |-> tcs[i].arguments,
                                    output |-> outs[i].output],
                     created_at |-> sends]]

\* the handler of this call reaches an await that suspends (get_session
\* reads Redis): create_course without org_id, and the organisation tools
Awaits(tc) ==
    /\ tc.arguments.valid
    /\ \/ /\ NormName(tc.name) \in {N_create_course, N_createcourse}
          /\ Falsy(Get(tc.arguments.obj, "org_id"))
       \/ /\ NormName(tc.name) \in {N_create_organization, N_createorganisation,
                                      N_create_org, N_createorganization}
          /\ ~Falsy(Get(tc.arguments.obj, "name"))
       \/ /\ NormName(tc.name) \in {N_invite_org_admin, N_inviteorgadmin}
          /\ ~Falsy(Get(tc.arguments.obj, "org_id"))
          /\ ~Falsy(Get(tc.arguments.obj, "invitee_email"))

\* profiles.update({"active_role": r}).eq("id", u) for each r, in order
WriteProfile(u, new_roles) ==
    IF new_roles = <<>> THEN profiles
    ELSE [profiles EXCEPT ![u] = new_roles[Len(new_roles)]]

\* the response slot of a request whose task was cancelled: none is sent
Cancelled == [status_code |-> 0, ok |-> FALSE, messages |-> <<>>, detail |-> "cancelled"]

\* one loop iteration that observes requires_action: run every tool call,
\* write the audit rows, submit the outputs, sleep.  When the task has been
\* cancelled, CancelledError is raised at the first await that suspends; it
\* is not an Exception, so no except clause of send_message catches it
PollTools(tcs, submitOk) ==
    /\ pc = "poll"
    /\ IF cancelled /\ \E i \in 1..Len(tcs) : Awaits(tcs[i])
       THEN /\ submitOk
            /\ \E k \in {CHOOSE i \in 1..Len(tcs) :
                            Awaits(tcs[i]) /\ \A j \in 1..(i - 1) : ~Awaits(tcs[j])} :
               \E b \in {ProcessBatch(user_id, SubSeq(tcs, 1, k - 1), Th,
                             [outputs |-> <<>>, results |-> <<>>, raised |-> {},
                              courses |-> courses, forced |-> forced_assistant_message,
                              fx |-> NoFx])} :
                   /\ status' = [status |-> "requires_action", tool_calls |-> tcs]
                   /\ outputs' = b.outputs
                   /\ results' = b.results
                   /\ raised' = b.raised
                   /\ courses' = b.courses
                   /\ invites' = invites \o b.fx.invites
                   /\ organizations' = organizations \o b.fx.organizations
                   /\ emails' = emails \o b.fx.emails
                   /\ profiles' = WriteProfile(user_id, b.fx.profile_roles)
                   /\ forced_assistant_message' = b.forced
            /\ calls' = Bump("retrieve")
            /\ resp' = Cancelled
            /\ pc' = "idle"
            /\ UNCHANGED <<chat_messages, submitted, delay, total>>
       ELSE /\ \E b \in {ProcessBatch(user_id, tcs, Th,
                             [outputs |-> <<>>, results |-> <<>>, raised |-> {},
                              courses |-> courses, forced |-> forced_assistant_message,
                              fx |-> NoFx])},
                  room \in {IF ToolRowsOfSend < MaxAudit THEN MaxAudit - ToolRowsOfSend ELSE 0} :
                   /\ status' = [status |-> "requires_action", tool_calls |-> tcs]
                   /\ outputs' = b.outputs
                   /\ results' = b.results
                   /\ raised' = b.raised
                   /\ courses' = b.courses
                   /\ invites' = invites \o b.fx.invites
                   /\ organizations' = organizations \o b.fx.organizations
                   /\ emails' = emails \o b.fx.emails
                   /\ profiles' = WriteProfile(user_id, b.fx.profile_roles)
                   /\ forced_assistant_message' = b.forced
                   /\ chat_messages' = chat_messages
                                         \o AuditRows(tcs, b.outputs, Min(Len(tcs), room))
                   /\ submitted' = b.outputs
            /\ calls' = [calls EXCEPT !["retrieve"] = @ + 1, !["submit"] = @ + 1]
            /\ IF submitOk
               THEN Sleep /\ resp' = resp
               ELSE Fail(500, "Chat send failed") /\ UNCHANGED <<delay, total>>
    /\ UNCHANGED <<rl, chat_threads, remote_msgs, user_id, current, sends, emitted, mapVars,
                   sessions, opa, mail_ok, last, cancelled, sideVars>>

AssistantRow(content, mid) ==
    [thread_id |-> Th.id, role |-> "assistant", content |-> content,
     openai_message_id |-> mid, tool_call |-> None, created_at |-> sends]

\* FinishForced with the override test placed after the reconciler: the
\* thread is listed and the reconciled messages are returned
FinishForcedAfterList ==
    /\ pc = "after_loop"
    /\ forced_assistant_message # None
    /\ calls' = [calls EXCEPT !["list"] = @ + 1]
    /\ chat_messages' = Append(chat_messages,
           [thread_id |-> "t1", role |-> "assistant", content |-> forced_assistant_message,
            openai_message_id |-> None, tool_call |-> None, created_at |-> sends])
    /\ resp' = HttpOk(Reconcile(ListMessages(remote_msgs)))
    /\ pc' = "idle"
    /\ UNCHANGED <<rl, chat_threads, courses, remote_msgs, user_id, current, status,
                   outputs, results, raised, forced_assistant_message, delay, total,
                   submitted, sends, emitted, mapVars, auxVars>>

\* "if forced_assistant_message:" after the loop: save it and return it
FinishForced ==
    /\ pc = "after_loop"
    /\ forced_assistant_message # None
    /\ chat_messages' = Append(chat_messages, AssistantRow(forced_assistant_message, None))
    /\ resp' = HttpOk(<<[openai_message_id |-> None, content |-> forced_assistant_message]>>)
    /\ pc' = "idle"
    /\ calls' = calls
    /\ UNCHANGED <<rl, chat_threads, courses, remote_msgs, user_id, current, status,
                   outputs, results, raised, forced_assistant_message, delay, total,
                   submitted, sends, emitted, mapVars, auxVars>>

\* "for am in reversed(new_assistant_msgs): insert"
RowsOf(msgs) == [i \in 1..Len(msgs) |->
                   AssistantRow(Reverse(msgs)[i].content, Reverse(msgs)[i].openai_message_id)]

\* no override: list the thread's messages, pick the reply, save, return
FinishReconcile(listOk) ==
    /\ pc = "after_loop"
    /\ forced_assistant_message = None
    /\ calls' = Bump("list")
    /\ IF listOk
       THEN LET new_assistant_msgs == Reconcile(ListMessages(remote_msgs))
            IN  /\ chat_messages' = chat_messages \o RowsOf(new_assistant_msgs)
                /\ resp' = HttpOk(new_assistant_msgs)
                /\ pc' = "idle"
       ELSE Fail(500, "Chat send failed") /\ UNCHANGED chat_messages
    /\ UNCHANGED <<rl, chat_threads, courses, remote_msgs, user_id, current, status,
                   outputs, results, raised, forced_assistant_message, delay, total,
                   submitted, sends, emitted, mapVars, auxVars>>

\* SpecSend follows one send_message request, from either history, through
\* every answer the remote service can give
SendOnce(u) == sends = 0 /\ SendIncr(u)

NextSend ==
    \/ \E u \in Users : SendOnce(u)
    \/ SendAdmit
    \/ \E ok \in BOOLEAN : AppendMessage(ok)
    \/ \E ok \in BOOLEAN : StartRun(ok)
    \/ \E c \in MsgContents : RemoteEmit(c)
    \/ PollFail
    \/ \E st \in Statuses : PollStatus(st)
    \/ \E tcs \in Batches, ok \in BOOLEAN : PollTools(tcs, ok)
    \/ FinishForced
    \/ \E ok \in BOOLEAN : FinishReconcile(ok)

SpecSend == Init /\ [][NextSend]_vars

\* the task running the request is cancelled (client disconnect, server
\* shutdown) while the loop is between two polls
Cancel ==
    /\ pc = "poll"
    /\ calls["retrieve"] >= 1
    /\ ~cancelled
    /\ cancelled' = TRUE
    /\ UNCHANGED <<storeVars, sendVars, mapVars, fxVars, sessions, profiles, opa,
                   mail_ok, last, sideVars>>

NextCancel == NextSend \/ Cancel

SpecCancel == Init /\ [][NextCancel]_vars

\* SpecRate follows a burst of sends while the remote service is unreachable
\* (every messages.create raises)
SendBurst(u) == sends < MaxSends /\ SendIncr(u)
AppendFails == AppendMessage(FALSE)

NextRate ==
    \/ \E u \in Users : SendBurst(u)
    \/ SendAdmit
    \/ \E u \in Users : RlExpire(u)
    \/ AppendFails

SpecRate == Init /\ [][NextRate]_vars

TypeOK ==
    /\ pc \in {"idle", "rate_limit", "append", "start_run", "poll", "after_loop"}
    /\ sends \in 0..MaxSends
    /\ calls["retrieve"] <= 7
    /\ total >= 0 /\ delay \in InitialDelay..MaxDelay

(* ======================= properties of send_message ==================== *)
Returned == pc = "idle" /\ sends > 0
AssistantRowsOfSend ==
    {i \in 1..Len(chat_messages) :
        chat_messages[i].role = "assistant" /\ chat_messages[i].created_at = sends}
Window == ListMessages(remote_msgs)
\* positions of the window (1 = newest) holding an assistant message with text
WithText == {i \in 1..Len(Window) : Window[i].role = "assistant" /\ MsgText(Window[i]) # <<>>}
Newest(S) == CHOOSE i \in S : \A j \in S : i <= j
AsReply(i) == [openai_message_id |-> Window[i].id, content |-> MsgText(Window[i])]

\* C1: a send whose counter value exceeds the burst of 5 is answered 429 and
\* never gets as far as the thread lookup or a remote call.
C1_SixthSendRejected ==
    current > RL_BURST =>
        /\ pc \in {"rate_limit", "idle"}
        /\ pc = "idle" => resp.status_code = 429
        /\ calls = NoCalls

\* C2: every requires_action observation is answered by exactly one
\* submit_tool_outputs call carrying one string output per tool call, each
\* tagged with the id of the call it answers.
C2_OneOutputPerToolCall ==
    [][ (/\ pc = "poll"
         /\ status'.status = "requires_action"
         /\ \E ok \in BOOLEAN : PollTools(status'.tool_calls, ok))
        => /\ calls'["submit"] = calls["submit"] + 1
           /\ Len(submitted') = Len(status'.tool_calls)
           /\ \A i \in 1..Len(submitted') :
                 /\ submitted'[i].tool_call_id = status'.tool_calls[i].id
                 /\ submitted'[i].output \in STRING ]_vars

C2_Witness ==
    /\ status.status = "requires_action"
    /\ Len(status.tool_calls) = MaxToolCalls
    /\ Len(submitted) = MaxToolCalls
    /\ calls["submit"] = 2

\* C3: when a handler raises, the batch is still completed and submitted:
\* every call of the batch has its output, and the output of the call whose
\* handler raised is the serialised error object.
C3_RaisingHandlerContained ==
    (status.status = "requires_action" /\ raised # {}) =>
        /\ calls["submit"] >= 1
        /\ Len(submitted) = Len(status.tool_calls)
        /\ Len(results) = Len(status.tool_calls)
        /\ \A i \in raised :
              /\ "error" \in DOMAIN results[i]
              /\ submitted[i] = [tool_call_id |-> status.tool_calls[i].id,
                                 output |-> Dumps(results[i])]

C3_Witness ==
    /\ status.status = "requires_action"
    /\ raised = {1}
    /\ Len(status.tool_calls) = 2
    /\ "user_id" \in DOMAIN results[2]
    /\ Len(submitted) = 2
    /\ pc = "poll"

\* C4: the poll loop makes at most 7 status fetches, whatever statuses the
\* service returns, and never polls again once the slept time passed the ceiling.
C4_PollsBounded ==
    /\ calls["retrieve"] <= 7
    /\ pc = "poll" => total <= Ceiling

C4_Witness ==
    /\ pc = "after_loop"
    /\ calls["retrieve"] = 7
    /\ status.status = "in_progress"
    /\ total > Ceiling

\* C5: a send whose loop hit the ceiling on a non-terminal run is answered
\* with an error, and no assistant row is persisted for it.
C5_TimeoutOutcome ==
    (Returned /\ status.status \in NonTerminal /\ total > Ceiling) =>
        /\ ~resp.ok
        /\ AssistantRowsOfSend = {}

\* C6: a send whose run ended failed, cancelled or expired is answered with
\* a failure, never with ok:true.
C6_TerminalFailurePropagated ==
    (Returned /\ status.status \in {"failed", "cancelled", "expired"}) => ~resp.ok

ThreadKey(u, a) == <<u, a>>

\* Redis GET: a key whose TTL has run out reads as absent
RedisGet(map, key, t) ==
    IF map[key].thread_id # None /\ t < map[key].expires THEN map[key].thread_id ELSE None

\* store_thread_mapping under a key that leaves the assistant out
StoreThreadMappingUserKey(map, u, a, tid, t) ==
    [map EXCEPT ![ThreadKey(u, "asst_a")] =
        [thread_id |-> tid, expires |-> t + THREAD_TTL_SECONDS]]

\* store_thread_mapping: redis.set(key, thread_id, ex=THREAD_TTL_SECONDS)
StoreThreadMapping(map, u, a, tid, t) ==
    [map EXCEPT ![ThreadKey(u, a)] =
        [thread_id |-> tid, expires |-> t + THREAD_TTL_SECONDS]]

\* get_thread_for_assistant: the value read
GetThreadForAssistant(map, u, a, t) == RedisGet(map, ThreadKey(u, a), t)

\* get_thread_for_assistant: "await redis.expire(key, THREAD_TTL_SECONDS)"
\* when a thread was found
RefreshTtl(map, u, a, t) ==
    IF GetThreadForAssistant(map, u, a, t) # None
    THEN [map EXCEPT ![ThreadKey(u, a)].expires = t + THREAD_TTL_SECONDS]
    ELSE map

CallsMade == LET RECURSIVE Sum(_)
                 Sum(S) == IF S = {} THEN 0
                           ELSE LET k == CHOOSE x \in S : TRUE
                                IN  ct_resp[k].n + Sum(S \ {k})
             IN  Sum(Users \X Assistants)

CtReply(k, code, tid, created) ==
    [ct_resp EXCEPT ![k] = [n |-> @.n + 1, status_code |-> code, thread_id |-> tid,
                            created |-> created, at |-> now]]

\* POST /assistants/{assistant_id}/threads.  fault names the call that
\* raises, if any: every exception becomes a 500
CreateOrGetThread(u, a, fault) ==
    /\ CallsMade < MaxCalls
    /\ LET existing_thread_id == GetThreadForAssistant(thread_map, u, a, now)
           thread_id == "thread_" \o ToString(remote_threads + 1)
       IN  IF fault = "redis_get"
           THEN /\ ct_resp' = CtReply(ThreadKey(u, a), 500, None, FALSE)
                /\ UNCHANGED <<thread_map, remote_threads>>
           ELSE IF existing_thread_id # None
           THEN /\ fault = "none"
                /\ thread_map' = RefreshTtl(thread_map, u, a, now)
                /\ ct_resp' = CtReply(ThreadKey(u, a), 200, existing_thread_id, FALSE)
                /\ UNCHANGED remote_threads
           ELSE IF fault = "openai"
           THEN /\ ct_resp' = CtReply(ThreadKey(u, a), 500, None, FALSE)
                /\ UNCHANGED <<thread_map, remote_threads>>
           ELSE IF fault = "redis_set"
           THEN /\ remote_threads' = remote_threads + 1
                /\ ct_resp' = CtReply(ThreadKey(u, a), 500, None, FALSE)
                /\ UNCHANGED thread_map
           ELSE /\ remote_threads' = remote_threads + 1
                /\ thread_map' = StoreThreadMapping(thread_map, u, a, thread_id, now)
                /\ ct_resp' = CtReply(ThreadKey(u, a), 200, thread_id, TRUE)
    /\ UNCHANGED <<storeVars, sendVars, now, auxVars>>

\* time passes
Tick ==
    /\ now < MaxTicks * TickSeconds
    /\ now' = now + TickSeconds
    /\ UNCHANGED <<storeVars, sendVars, thread_map, remote_threads, ct_resp, auxVars>>

NextMap ==
    \/ \E u \in Users, a \in Assistants, fault \in {"none", "redis_get", "openai", "redis_set"} :
          CreateOrGetThread(u, a, fault)
    \/ Tick

SpecMap == Init /\ [][NextMap]_vars

\* C10: a successful create_or_get_thread call that follows a successful
\* call for the same caller and assistant before the 24-hour TTL ran out
\* returns the same thread_id with created = false and creates no remote thread.
C10_SecondCallSameThread ==
    [][ \A k \in Users \X Assistants :
          (/\ ct_resp'[k].n = ct_resp[k].n + 1
           /\ ct_resp[k].status_code = 200
           /\ ct_resp'[k].status_code = 200
           /\ ct_resp'[k].at - ct_resp[k].at < THREAD_TTL_SECONDS)
          => /\ ct_resp'[k].thread_id = ct_resp[k].thread_id
             /\ ct_resp'[k].created = FALSE
             /\ remote_threads' = remote_threads ]_vars

C10_Witness ==
    /\ ct_resp[<<"u1", "asst_b">>].n = 2
    /\ ct_resp[<<"u1", "asst_b">>].status_code = 200
    /\ ct_resp[<<"u1", "asst_b">>].created = FALSE
    /\ ct_resp[<<"u1", "asst_b">>].thread_id = "thread_2"
    /\ ct_resp[<<"u1", "asst_a">>].thread_id = "thread_1"
    /\ remote_threads = 2

\* C13: a send whose append to the remote thread failed ends with HTTP 500:
\* no run was started, no status was fetched, no tool handler ran and no
\* chat_messages row was written for it.
C13_AppendFailureAborts ==
    (pc = "idle" /\ calls["append"] = 1 /\ calls["run"] = 0) =>
        /\ resp.status_code = 500
        /\ ~resp.ok
        /\ resp.messages = <<>>
        /\ calls["retrieve"] = 0 /\ calls["submit"] = 0 /\ calls["list"] = 0
        /\ outputs = <<>> /\ results = <<>> /\ submitted = <<>>
        /\ courses = {}
        /\ \A i \in 1..Len(chat_messages) : chat_messages[i].created_at # sends

C13_Witness ==
    /\ pc = "idle"
    /\ calls["append"] = 1
    /\ calls["run"] = 0
    /\ resp.status_code = 500
    /\ Len(chat_messages) = 2

\* C16: once the request has been cancelled between two polls, the loop
\* makes no further remote call: no status fetch, no submit, no listing.
C16_NoRemoteCallAfterCancel ==
    [][ cancelled => /\ calls'["retrieve"] = calls["retrieve"]
                     /\ calls'["submit"] = calls["submit"]
                     /\ calls'["list"] = calls["list"] ]_vars

(* ---------------------------- thread routes ---------------------------- *)
Reply(op, u, target, code, detail) ==
    [op |-> op, user |-> u, target |-> target, status_code |-> code,
     ok |-> (code = 200), detail |-> detail]

ThreadIds == {"t0", "t1", "t9"} \cup {"n" \o ToString(i) : i \in 1..(MaxCreates + 1)}
Titles == {"Plan"}
RowsById(tid) == {r \in chat_threads : r.id = tid}

\* POST /assistant/chats.  fault names the call that raises, if any
CreateThread(u, a, course_id, title, fault) ==
    /\ remote_threads < MaxCreates
    /\ LET arow == {x \in AssistantRows : x.id = a}
           crow == {c \in courses : c.id = course_id}
           c == CHOOSE x \in crow : TRUE
           role == MembershipRole(u, c.org_id)
           org_id_ctx == (CHOOSE x \in arow : TRUE).org_id
           org1 == IF Falsy(org_id_ctx) THEN SessionOrgId(u) ELSE org_id_ctx
           org_id_final == IF Falsy(org1) THEN Or(MembershipOrg(u, "organization_admin"), org1)
                           ELSE org1
           n == remote_threads + 1
           rec == [id |-> "n" \o ToString(n), user_id |-> u, assistant_id |-> a,
                   course_id |-> course_id, org_id |-> org_id_final,
                   role |-> SessionOrBuild(u).active_role,
                   openai_thread_id |-> "th_n" \o ToString(n),
                   title |-> Or(title, "New Chat"), archived_at |-> None]
           reject(code, detail) ==
               /\ last' = Reply("create_thread", u, None, code, detail)
               /\ UNCHANGED <<chat_threads, remote_threads>>
       IN  IF arow = {} THEN fault = "none" /\ reject(404, "Assistant not found")
           ELSE IF course_id # None /\ crow = {}
           THEN fault = "none" /\ reject(404, "Course not found")
           ELSE IF /\ course_id # None
                   /\ role \notin {"teacher", "organization_admin"}
                   /\ ~ \E e \in Enrollments : e.user_id = u /\ e.course_id = course_id
           THEN fault = "none"
                /\ reject(403, "Must be enrolled in course to create a course chat")
           ELSE IF fault = "openai" THEN reject(500, "Failed to create OpenAI thread")
           ELSE IF fault = "insert"
           THEN /\ remote_threads' = n
                /\ last' = Reply("create_thread", u, None, 500, "Failed to create chat thread")
                /\ UNCHANGED chat_threads
           ELSE /\ remote_threads' = n
                /\ chat_threads' = chat_threads \cup {rec}
                /\ last' = Reply("create_thread", u, rec.id, 200, "")
    /\ UNCHANGED <<rl, chat_messages, courses, remote_msgs, sendVars, thread_map, now,
                   ct_resp, fxVars, sessions, profiles, opa, mail_ok, cancelled, sideVars>>

threadFrame == <<rl, chat_messages, courses, remote_msgs, sendVars, mapVars, fxVars,
                 sessions, profiles, opa, mail_ok, cancelled, sideVars>>

\* the body shared by archive_thread and unarchive_thread
SetArchived(op, u, tid, value) ==
    /\ IF RowsById(tid) = {} \/ (CHOOSE r \in RowsById(tid) : TRUE).user_id # u
       THEN /\ last' = Reply(op, u, tid, 404, "Thread not found")
            /\ UNCHANGED chat_threads
       ELSE /\ chat_threads' = {IF r.id = tid THEN [r EXCEPT !.archived_at = value] ELSE r :
                                  r \in chat_threads}
            /\ last' = Reply(op, u, tid, 200, "")
    /\ UNCHANGED threadFrame

\* POST /assistant/chats/{thread_id}/archive
ArchiveThread(u, tid) == SetArchived("archive_thread", u, tid, "now()")
\* POST /assistant/chats/{thread_id}/unarchive
UnarchiveThread(u, tid) == SetArchived("unarchive_thread", u, tid, None)

\* RenameThread without the ownership test: the row is updated by id alone
RenameThreadByIdOnly(u, tid, title) ==
    /\ chat_threads' = {IF r.id = tid THEN [r EXCEPT !.title = title] ELSE r :
                          r \in chat_threads}
    /\ last' = Reply("rename_thread", u, tid, 200, "")
    /\ UNCHANGED threadFrame

\* PATCH /assistant/chats/{thread_id}
RenameThread(u, tid, title) ==
    /\ IF RowsById(tid) = {}
       THEN \* update ... eq("id", thread_id): matches no row
            /\ chat_threads' = {IF r.id = tid THEN [r EXCEPT !.title = title] ELSE r :
                                  r \in chat_threads}
            /\ last' = Reply("rename_thread", u, tid, 200, "")
       ELSE IF (CHOOSE r \in RowsById(tid) : TRUE).user_id # u
       THEN /\ last' = Reply("rename_thread", u, tid, 403, "Forbidden")
            /\ UNCHANGED chat_threads
       ELSE /\ chat_threads' = {IF r.id = tid /\ r.user_id = u
                                  THEN [r EXCEPT !.title = title] ELSE r : r \in chat_threads}
            /\ last' = Reply("rename_thread", u, tid, 200, "")
    /\ UNCHANGED threadFrame

\* DELETE /assistant/chats/{thread_id}
DeleteThread(u, tid) ==
    /\ IF RowsById(tid) = {}
       THEN \* delete ... eq("id", thread_id): matches no row
            /\ chat_threads' = {r \in chat_threads : r.id # tid}
            /\ last' = Reply("delete_thread", u, tid, 200, "")
       ELSE IF (CHOOSE r \in RowsById(tid) : TRUE).user_id # u
       THEN /\ last' = Reply("delete_thread", u, tid, 403, "Forbidden")
            /\ UNCHANGED chat_threads
       ELSE /\ chat_threads' = {r \in chat_threads : ~(r.id = tid /\ r.user_id = u)}
            /\ last' = Reply("delete_thread", u, tid, 200, "")
    /\ UNCHANGED threadFrame

NextThreads ==
    \/ \E u \in Users, a \in {"asst_a", "asst_x"}, course_id \in {None, "c1"},
          fault \in {"none", "openai", "insert"} : CreateThread(u, a, course_id, None, fault)
    \/ \E u \in Users, tid \in ThreadIds : ArchiveThread(u, tid)
    \/ \E u \in Users, tid \in ThreadIds : UnarchiveThread(u, tid)
    \/ \E u \in Users, tid \in ThreadIds, title \in Titles : RenameThread(u, tid, title)
    \/ \E u \in Users, tid \in ThreadIds : DeleteThread(u, tid)

SpecThreads == Init /\ [][NextThreads]_vars

ThreadMutations == {"rename_thread", "delete_thread", "archive_thread", "unarchive_thread"}

\* C11: under sequential create_thread calls the chat_threads table never
\* holds two non-archived rows for the same (user_id, assistant_id).
C11_OneActiveBindingPerPair ==
    \A r1, r2 \in chat_threads :
        (/\ r1.user_id # None
         /\ r1.user_id = r2.user_id
         /\ r1.assistant_id = r2.assistant_id
         /\ r1.archived_at = None
         /\ r2.archived_at = None) => r1.id = r2.id

\* C15: a rename, delete, archive or unarchive request never changes or
\* deletes a row whose user_id is set and differs from the caller's id, and
\* a request aimed at such a row is answered 403 or 404.
C15_ForeignRowsUntouched ==
    [][ \A r \in chat_threads :
          (/\ last'.op \in ThreadMutations
           /\ r.user_id # None
           /\ r.user_id # last'.user)
          => /\ r \in chat_threads'
             /\ (last'.target = r.id => last'.status_code \in {403, 404}) ]_vars

C15_Witness ==
    /\ last.op = "delete_thread"
    /\ last.user = "u2"
    /\ last.target = "t1"
    /\ last.status_code = 403
    /\ \E r \in chat_threads : r.id = "t1" /\ r.user_id = "u1" /\ r.title = "Plan"

\* C20: rename_thread and delete_thread aimed at an existing row whose
\* user_id is missing succeed and mutate the row by id alone.
C20_LegacyRowMutatedById ==
    [][ \A r \in chat_threads :
          (/\ last'.op \in {"rename_thread", "delete_thread"}
           /\ last'.target = r.id
           /\ r.user_id = None)
          => /\ last'.status_code = 200
             /\ (last'.op = "delete_thread" => r \notin chat_threads')
             /\ (last'.op = "rename_thread" =>
                    [r EXCEPT !.title = "Plan"] \in chat_threads') ]_vars

(* ---------------------------- session routes --------------------------- *)
\* what client.beta.assistants.list() returns: id and metadata
RemoteAssistants ==
    << [id |-> "asst_a", role_access |-> None, org_id |-> None],
       [id |-> "asst_b", role_access |-> "teacher", org_id |-> None] >>

\* filter_assistants_by_role
RECURSIVE FilterAssistantsByRole(_, _, _)
FilterAssistantsByRole(assistants, user_role, user_org_id) ==
    IF assistants = <<>> THEN <<>>
    ELSE LET a == Head(assistants)
             rest == FilterAssistantsByRole(Tail(assistants), user_role, user_org_id)
         IN  IF Falsy(a.role_access) /\ Falsy(a.org_id) THEN <<a>> \o rest
             ELSE IF ~Falsy(a.role_access) /\ user_role # a.role_access THEN rest
             ELSE IF ~Falsy(a.org_id) /\ user_org_id # a.org_id THEN rest
             ELSE <<a>> \o rest

sessionFrame == <<storeVars, sendVars, mapVars, fxVars, opa, mail_ok, cancelled, sideVars>>

\* GET /auth/me (no X-Device-Id header)
Me(u) ==
    /\ sessions' = [sessions EXCEPT ![u] = SessionOrBuild(u)]
    /\ last' = Reply("me", u, SessionOrBuild(u).active_role, 200, "")
    /\ UNCHANGED <<profiles, sessionFrame>>

\* POST /auth/logout
Logout(u) ==
    /\ sessions' = [sessions EXCEPT ![u] = NoSession]
    /\ last' = Reply("logout", u, None, 200, "")
    /\ UNCHANGED <<profiles, sessionFrame>>

\* the key session:<user> reaches its TTL
SessionExpire(u) ==
    /\ sessions[u].present
    /\ sessions' = [sessions EXCEPT ![u] = NoSession]
    /\ UNCHANGED <<profiles, last, sessionFrame>>

\* SwitchRole without the loop over session["roles"]: any requested role is
\* taken
SwitchRoleUnchecked(u, role, org_id) ==
    LET session == SessionOrBuild(u)
    IN  /\ sessions' = [sessions EXCEPT ![u] =
               [session EXCEPT !.active_role = role, !.active_org_id = org_id]]
        /\ profiles' = [profiles EXCEPT ![u] = role]
        /\ last' = Reply("switch_role", u, role, 200, "")
        /\ UNCHANGED sessionFrame

\* POST /auth/switch-role
SwitchRole(u, role, org_id) ==
    LET session == SessionOrBuild(u)
        roles == session.roles
        matches == {i \in 1..Len(roles) :
                      roles[i].role = role /\ (org_id = None \/ roles[i].org_id = org_id)}
        matched_role_data == roles[CHOOSE i \in matches : \A j \in matches : i <= j]
    IN  /\ IF matches = {}
           THEN /\ last' = [Reply("switch_role", u, role, 200, "Role not assigned")
                               EXCEPT !.ok = FALSE]
                /\ UNCHANGED <<sessions, profiles>>
           ELSE /\ sessions' = [sessions EXCEPT ![u] =
                       [session EXCEPT
                          !.active_role = role,
                          !.active_org_id = IF ~Falsy(org_id) THEN org_id
                                            ELSE matched_role_data.org_id]]
                /\ profiles' = [profiles EXCEPT ![u] = role]
                /\ last' = Reply("switch_role", u, role, 200, "")
        /\ UNCHANGED sessionFrame

\* GET /assistants.  Every exception, the 401 included, leaves as a 500
GetAssistants(u, fault) ==
    /\ IF ~sessions[u].present
       THEN /\ fault = "none"
            /\ last' = Reply("get_assistants", u, None, 500, "401: Session not found")
       ELSE IF fault = "openai"
       THEN last' = Reply("get_assistants", u, None, 500, "assistants.list failed")
       ELSE last' = Reply("get_assistants", u, None, 200, "")
    /\ UNCHANGED <<sessions, profiles, sessionFrame>>

\* GET /assistants/{assistant_id}
GetAssistant(u, a, fault) ==
    /\ IF ~sessions[u].present
       THEN /\ fault = "none"
            /\ last' = Reply("get_assistant", u, a, 401, "Session not found")
       ELSE IF fault = "openai"
       THEN last' = Reply("get_assistant", u, a, 500, "assistants.list failed")
       ELSE LET filtered == FilterAssistantsByRole(RemoteAssistants,
                                sessions[u].active_role, sessions[u].active_org_id)
            IN  IF \E i \in 1..Len(filtered) : filtered[i].id = a
                THEN last' = Reply("get_assistant", u, a, 200, "")
                ELSE last' = Reply("get_assistant", u, a, 403,
                                   "Assistant not found or access denied")
    /\ UNCHANGED <<sessions, profiles, sessionFrame>>

\* the requires_action iteration of a send by u on its thread tid whose
\* batch is the single call shape: the "for tc in tool_calls" loop and the
\* submit, with no override pending
ToolCall(u, tid, shape) ==
    /\ calls["submit"] < MaxToolSteps
    /\ \E th \in {r \in chat_threads : r.id = tid /\ r.user_id = u} :
       \E tcs \in {<<[id |-> "call_1", name |-> shape.name, arguments |-> shape.arguments]>>} :
       \E b \in {ProcessBatch(u, tcs, th,
                     [outputs |-> <<>>, results |-> <<>>, raised |-> {},
                      courses |-> courses, forced |-> None, fx |-> NoFx])} :
           /\ user_id' = u
           /\ status' = [status |-> "requires_action", tool_calls |-> tcs]
           /\ outputs' = b.outputs
           /\ results' = b.results
           /\ raised' = b.raised
           /\ courses' = b.courses
           /\ invites' = invites \o b.fx.invites
           /\ organizations' = organizations \o b.fx.organizations
           /\ emails' = emails \o b.fx.emails
           /\ profiles' = WriteProfile(u, b.fx.profile_roles)
           /\ forced_assistant_message' = b.forced
           /\ submitted' = b.outputs
    /\ calls' = Bump("submit")
    /\ last' = Reply("tool_call", u, tid, 200, "")
    /\ UNCHANGED <<rl, chat_threads, chat_messages, remote_msgs, pc, current, delay, total,
                   resp, sends, emitted, mapVars, sessions, opa, mail_ok, cancelled, sideVars>>

RoleNames == {"student", "teacher", "organization_admin", "super_admin"}
OrgIds == {"o1", "o2"}

\* a switch_role tool call an agent may request during a send
SwitchRoleShapes ==
    { [name |-> N_switch_role, arguments |-> JsonText([EmptyDict EXCEPT !.role = r])] :
        r \in {"student", "super_admin"} }

NextSession ==
    \/ \E u \in SessionUsers : Me(u)
    \/ \E u \in SessionUsers : Logout(u)
    \/ \E u \in SessionUsers : SessionExpire(u)
    \/ \E u \in SessionUsers, role \in RoleNames, org_id \in OrgIds \cup {None} :
          SwitchRole(u, role, org_id)
    \/ \E u \in Users, fault \in {"none", "openai"} : GetAssistants(u, fault)
    \/ \E u \in Users, a \in Assistants, fault \in {"none", "openai"} :
          GetAssistant(u, a, fault)
    \/ \E u \in Users, tid \in ThreadIds, shape \in SwitchRoleShapes : ToolCall(u, tid, shape)

SpecSession == Init /\ [][NextSession]_vars

SessionReaders == {"me", "switch_role", "get_assistants", "get_assistant"}

\* C14: a request that needs the session and finds none is served from a
\* rebuilt session: the absence alone never yields an error response.
C14_AbsentSessionRecovered ==
    [][ (/\ last'.op \in SessionReaders
         /\ ~sessions[last'.user].present
         /\ last'.detail # "assistants.list failed")
        => last'.status_code = 200 ]_vars

\* the (role, org_id) pairs of a session's roles list
RolePairs(session) ==
    {<<session.roles[i].role, session.roles[i].org_id>> : i \in 1..Len(session.roles)}

OrgToolShapes ==
    { [name |-> N_create_organization,
       arguments |-> JsonText([EmptyDict EXCEPT !.name = "Acme"])],
      [name |-> N_invite_org_admin,
       arguments |-> JsonText([EmptyDict EXCEPT !.org_id = "o1", !.invitee_email = "Bob@x.org"])],
      [name |-> N_invite_org_admin,
       arguments |-> JsonText([EmptyDict EXCEPT !.org_id = "o2", !.invitee_email = "Bob@x.org"])],
      [name |-> N_invite_teacher,
       arguments |-> JsonText([EmptyDict EXCEPT !.email = "Bob@x.org"])],
      [name |-> N_create_course,
       arguments |-> JsonText([EmptyDict EXCEPT !.title = "Algebra"])],
      [name |-> N_create_course,
       arguments |-> JsonText([EmptyDict EXCEPT !.title = "Algebra", !.org_id = "o2"])] }

\* the policy service changes its answer, or goes down
OpaChange(v) ==
    /\ opa # v
    /\ opa' = v
    /\ UNCHANGED <<storeVars, sendVars, mapVars, fxVars, sessions, profiles, mail_ok,
                   last, cancelled, sideVars>>

NextTools ==
    \/ \E u \in Users, tid \in ThreadIds, shape \in OrgToolShapes : ToolCall(u, tid, shape)
    \/ \E v \in {"allow", "deny", "raise"} : OpaChange(v)
    \/ \E role \in {"super_admin", "organization_admin"} : SwitchRole("u2", role, None)
    \/ CreateThread("u2", "asst_a", None, None, "none")

SpecTools == Init /\ [][NextTools]_vars

\* the step is a tool call
ToolStep == calls'["submit"] = calls["submit"] + 1
\* the call it ran, its normalised name and its parsed arguments
StepCall == status'.tool_calls[1]
StepNorm == NormName(StepCall.name)
StepArgs == StepCall.arguments.obj
\* the thread row the call ran on
StepThread == CHOOSE r \in chat_threads : r.id = last'.target
\* the caller's active role is super_admin, or the caller holds an
\* organization_admin membership in org
Authorized(u, org) ==
    \/ SessionOrBuild(u).active_role = "super_admin"
    \/ \E m \in Memberships :
          m.user_id = u /\ m.org_id = org /\ m.role = "organization_admin"
InviteNorms == {N_invite_org_admin, N_invite_teacher}
\* the organisation an invite call is aimed at
StepOrg == Or(Get(StepArgs, "org_id"), StepThread.org_id)

\* C12: an invite_teacher or invite_org_admin call by a caller who is
\* neither organization_admin of the target org nor super_admin submits an
\* error output and sets no override message.
C12_FailedAuthorizationNoOverride ==
    [][ (/\ ToolStep
         /\ StepNorm \in InviteNorms
         /\ ~Authorized(user_id', StepOrg))
        => /\ DOMAIN results'[1] = {"error"}
           /\ submitted'[1].output = "{\"error\": \"" \o results'[1].error \o "\"}"
           /\ forced_assistant_message' = None ]_vars

C12_Witness ==
    /\ user_id = "u1"
    /\ status.status = "requires_action"
    /\ NormName(status.tool_calls[1].name) = N_invite_teacher
    /\ results = <<[error |-> "Invalid role for organization invite"]>>
    /\ forced_assistant_message = None
    /\ calls["submit"] = 1

\* C17: every invites row is created by a caller whose active role is
\* super_admin or who is organization_admin of the row's org; for any other
\* caller the invite call returns an error value, adds no row and sends no
\* email, whatever the policy service answers.
C17_InviteOnlyByAdmins ==
    [][ /\ (Len(invites') > Len(invites)) =>
              /\ ToolStep
              /\ Len(invites') = Len(invites) + 1
              /\ invites'[Len(invites')].inviter = user_id'
              /\ Authorized(user_id', invites'[Len(invites')].org_id)
        /\ (/\ ToolStep
            /\ StepNorm \in InviteNorms
            /\ ~Authorized(user_id', StepOrg))
           => /\ invites' = invites
              /\ emails' = emails
              /\ raised' = {}
              /\ DOMAIN results'[1] = {"error"} ]_vars

C17_Witness ==
    /\ opa = "raise"
    /\ user_id = "u1"
    /\ status.status = "requires_action"
    /\ NormName(status.tool_calls[1].name) = N_invite_org_admin
    /\ DOMAIN results[1] = {"error"}
    /\ Len(invites) = 1
    /\ invites[1].inviter = "u2"
    /\ Len(emails) = 1

\* C18: every organizations row is inserted for a caller whose active role
\* is super_admin; for any other caller create_organization returns an
\* error and inserts nothing, whatever the policy service answers.
C18_CreateOrgOnlySuperAdmin ==
    [][ /\ (Len(organizations') > Len(organizations)) =>
              /\ ToolStep
              /\ organizations'[Len(organizations')].created_by = user_id'
              /\ SessionOrBuild(user_id').active_role = "super_admin"
        /\ (/\ ToolStep
            /\ StepNorm = N_create_organization
            /\ SessionOrBuild(user_id').active_role # "super_admin")
           => /\ organizations' = organizations
              /\ DOMAIN results'[1] = {"error"} ]_vars

C18_Witness ==
    /\ opa = "raise"
    /\ user_id = "u1"
    /\ status.status = "requires_action"
    /\ NormName(status.tool_calls[1].name) = N_create_organization
    /\ results = <<[error |-> "Only super_admin can create organizations"]>>
    /\ Len(organizations) = 1
    /\ organizations[1].created_by = "u2"

\* C19: the courses table never holds two rows with the same org_id and
\* title, and a create_course call for a title the org already has submits
\* an error output and inserts nothing.
C19_OneCoursePerOrgTitle ==
    [][ /\ \A c1, c2 \in courses' :
              (c1.org_id = c2.org_id /\ c1.title = c2.title) => c1.id = c2.id
        /\ (/\ ToolStep
            /\ StepNorm = N_create_course
            /\ \E c \in courses :
                  /\ c.title = Get(StepArgs, "title")
                  /\ c.org_id = Or(Get(StepArgs, "org_id"),
                                   Or(MembershipOrg(user_id', "teacher"), StepThread.org_id)))
           => /\ courses' = courses
              /\ DOMAIN results'[1] = {"error"}
              /\ forced_assistant_message' = None ]_vars

C19_Witness ==
    /\ status.status = "requires_action"
    /\ NormName(status.tool_calls[1].name) = N_create_course
    /\ results = <<[error |-> "Course 'Algebra' already exists in your organization"]>>
    /\ Cardinality(courses) = 1
    /\ calls["submit"] = 2


(* --------------------------- tool name drift --------------------------- *)
\* spellings of one tool name an agent may send
DriftNames ==
    { <<"c","r","e","a","t","e","_","o","r","g">>,
      <<"c","r","e","a","t","e","O","r","g">>,
      <<"C","r","e","a","t","e","-","O","r","g">>,
      <<"g","e","t","_","m","e">>,
      <<"g","e","t","M","e">>,
      <<" ","G","E","T"," ","M","E">> }

DriftShapes ==
    { [name |-> n, arguments |-> JsonText([EmptyDict EXCEPT !.name = "Acme"])] :
        n \in DriftNames }

\* SpecNames follows tool calls whose names vary in case and punctuation
NextNames ==
    \/ \E u \in Users, tid \in ThreadIds, shape \in DriftShapes : ToolCall(u, tid, shape)
    \/ \E v \in {"allow", "deny", "raise"} : OpaChange(v)
    \/ \E role \in {"super_admin", "organization_admin"} : SwitchRole("u2", role, None)
    \/ CreateThread("u2", "asst_a", None, None, "none")

SpecNames == Init /\ [][NextNames]_vars

\* a name lower-cased, with every non-alphanumeric character removed
Squash(fname) ==
    SelectSeq([i \in 1..Len(fname) |-> LowerChar(fname[i])], IsAlnum)

\* C21: a tool call's result is the result the dispatcher gives, in the same
\* state, to every other spelling that is equal to the call's name after
\* lower-casing and removing the non-alphanumeric characters.
C21_DispatchIgnoresSpelling ==
    [][ ToolStep =>
          \A m \in DriftNames :
             Squash(m) = Squash(StepCall.name)
             => Dispatch(user_id', NormName(m), m, StepArgs, StepThread, courses).result
                = results'[1] ]_vars


(* ----------------------------- thread scope ---------------------------- *)
\* SpecScope follows create_thread calls without a course between role
\* switches of the callers
NextScope ==
    \/ \E u \in Users, role \in RoleNames : SwitchRole(u, role, None)
    \/ \E u \in Users : Logout(u)
    \/ \E u \in Users, a \in Assistants, title \in Titles \cup {None} :
          CreateThread(u, a, None, title, "none")

SpecScope == Init /\ [][NextScope]_vars

\* the rows a step inserts into chat_threads
NewThreads == chat_threads' \ chat_threads

\* C23: a thread created without a course for an assistant that carries no
\* org_id is bound to the caller's active organization of the session when
\* the session has one, and otherwise to the org of the caller's
\* organization_admin membership.
C23_ThreadOrgFromSession ==
    [][ \A r \in NewThreads :
          (r.course_id = None
           /\ \A x \in AssistantRows : x.id = r.assistant_id => Falsy(x.org_id))
          => r.org_id = IF ~Falsy(SessionOrBuild(r.user_id).active_org_id)
                        THEN SessionOrBuild(r.user_id).active_org_id
                        ELSE MembershipOrg(r.user_id, "organization_admin") ]_vars


(* ---------------------------- turn of a reply -------------------------- *)
\* the remote id of the user message the current send appended
UserMsgIdOfSend ==
    LET rows == {i \in 1..Len(chat_messages) :
                    chat_messages[i].role = "user" /\ chat_messages[i].created_at = sends}
    IN  chat_messages[CHOOSE i \in rows : TRUE].openai_message_id

\* C24: every remote message a send returns, and every assistant row it
\* persists for it, is a message created after the user message of that
\* send (a send that returns an override returns no remote message).
C24_ReplyOfCurrentTurn ==
    (Returned /\ resp.ok /\ forced_assistant_message = None) =>
        /\ \A i \in 1..Len(resp.messages) :
              resp.messages[i].openai_message_id > UserMsgIdOfSend
        /\ \A i \in AssistantRowsOfSend :
              chat_messages[i].openai_message_id > UserMsgIdOfSend


\* the chat_messages rows the current send inserted
RowsOfSend == {i \in 1..Len(chat_messages) : chat_messages[i].created_at = sends}

\* C25: a send that ends with an error after its user message was appended
\* (runs.create was reached) leaves no chat_messages row of that send.
C25_ErrorLeavesNoExchange ==
    (Returned /\ ~resp.ok /\ calls["run"] >= 1) => RowsOfSend = {}


(* --------------------------- get_session ------------------------------- *)
\* data = await redis.get(key): the value read stays with the call
GetSessionRead(u) ==
    /\ gs.pc = "idle"
    /\ sessions[u].present
    /\ gs' = [pc |-> "read", user |-> u, data |-> sessions[u]]
    /\ UNCHANGED <<storeVars, sendVars, mapVars, fxVars, sessions, profiles, opa, mail_ok,
                   last, cancelled, opa_resp, ag>>

\* await redis.expire(key, TTL); await redis.set(key, json.dumps(session),
\* ex=TTL): the value that was read is written back, whatever the key holds
GetSessionWrite ==
    /\ gs.pc = "read"
    /\ sessions' = [sessions EXCEPT ![gs.user] = gs.data]
    /\ gs' = NoRead
    /\ UNCHANGED <<storeVars, sendVars, mapVars, fxVars, profiles, opa, mail_ok,
                   last, cancelled, opa_resp, ag>>

\* SpecRefresh follows get_session calls running next to /auth/me,
\* /auth/switch-role and /auth/logout requests of the same callers
NextRefresh ==
    \/ \E u \in Users : GetSessionRead(u)
    \/ GetSessionWrite
    \/ \E u \in Users : Me(u)
    \/ \E u \in Users : Logout(u)
    \/ \E u \in Users, role \in RoleNames, org_id \in OrgIds \cup {None} :
          SwitchRole(u, role, org_id)

SpecRefresh == Init /\ [][NextRefresh]_vars

\* C26: when the session of the caller was rewritten or deleted between the
\* read and the write of a get_session call, the write of that call leaves
\* the store as the writer left it.
C26_RefreshKeepsWriter ==
    [][ (gs.pc = "read" /\ gs'.pc = "idle" /\ sessions[gs.user] # gs.data)
        => sessions' = sessions ]_vars


(* ------------------------ rate limit under faults ---------------------- *)
\* "await redis.expire(key, 1)" raises (connection lost): "except Exception:
\* pass" swallows it and the handler goes on to the thread lookup
ExpireRaises ==
    /\ pc = "rate_limit"
    /\ current = 1
    /\ IF ~ThFound THEN Fail(404, "Thread not found")
       ELSE pc' = "append" /\ resp' = resp
    /\ UNCHANGED <<storeVars, user_id, current, status, outputs, results, raised,
                   forced_assistant_message, delay, total, calls, submitted,
                   sends, emitted, mapVars, auxVars>>

\* the request's task is cancelled while it waits for redis.incr's reply to
\* be followed by redis.expire: CancelledError leaves the handler
CancelAtExpire ==
    /\ pc = "rate_limit"
    /\ current = 1
    /\ resp' = Cancelled
    /\ pc' = "idle"
    /\ UNCHANGED <<storeVars, user_id, current, status, outputs, results, raised,
                   forced_assistant_message, delay, total, calls, submitted,
                   sends, emitted, mapVars, auxVars>>

\* SpecRateFaults follows a burst of sends where the expire step can fail
NextRateFaults ==
    \/ NextRate
    \/ ExpireRaises
    \/ CancelAtExpire

SpecRateFaults == Init /\ [][NextRateFaults]_vars

\* C27: whenever no send is between its incr and its expire, every counter
\* rl:send:<caller> that exists has a TTL.
C27_CounterHasTtl ==
    pc # "rate_limit" => \A u \in Users : rl[u].count > 0 => rl[u].ttl


(* --------------------------- student invites --------------------------- *)
\* the mail service goes down, or comes back
MailChange ==
    /\ mail_ok' = ~mail_ok
    /\ UNCHANGED <<storeVars, sendVars, mapVars, fxVars, sessions, profiles, opa, last,
                   cancelled, sideVars>>

\* batches that invite a student to the course the same send created
InviteBatches ==
    { << [id |-> "call_1", name |-> N_create_course,
          arguments |-> JsonText([EmptyDict EXCEPT !.title = "Algebra"])],
         [id |-> "call_2", name |-> N_invite_student,
          arguments |-> JsonText([EmptyDict EXCEPT !.course_id = "c1", !.email = "sam@x.org"])] >>,
      << [id |-> "call_1", name |-> N_invite_student,
          arguments |-> JsonText([EmptyDict EXCEPT !.course_id = "c1", !.email = "sam@x.org"])] >> }

\* SpecInvite follows one send whose run asks for student invitations while
\* the mail service comes and goes
NextInvite ==
    \/ \E u \in Users : SendOnce(u)
    \/ SendAdmit
    \/ \E ok \in BOOLEAN : AppendMessage(ok)
    \/ \E ok \in BOOLEAN : StartRun(ok)
    \/ \E c \in MsgContents : RemoteEmit(c)
    \/ \E st \in Statuses : PollStatus(st)
    \/ \E tcs \in InviteBatches, ok \in BOOLEAN : PollTools(tcs, ok)
    \/ FinishForced
    \/ \E ok \in BOOLEAN : FinishReconcile(ok)
    \/ MailChange

SpecInvite == Init /\ [][NextInvite]_vars

StudentOverride ==
    "Student invitation sent to sam@x.org! They can now accept the invitation to enroll in the course."

\* C28: a send returns the override "Student invitation sent to <email>!"
\* only when an enrollment email to that address was delivered during it.
C28_OverrideOnlyWhenDelivered ==
    (Returned /\ resp.ok /\ forced_assistant_message = StudentOverride
       /\ resp.messages = <<[openai_message_id |-> None, content |-> StudentOverride]>>)
    => \E i \in 1..Len(emails) :
          emails[i].role = "student" /\ emails[i].to = "sam@x.org" /\ emails[i].sent


(* --------------------------- check_permission -------------------------- *)
\* bool(x) of a JSON value
Truthy(x) ==
    IF x.t = "bool" THEN x.v
    ELSE IF x.t = "dict" THEN DOMAIN x.items # {}
    ELSE FALSE

\* service/opa_service.py check_permission, on the body opa_check returned
CheckPermission(result) ==
    IF result.t = "bool" THEN result.v
    ELSE IF result.t = "dict"
    THEN IF "result" \in DOMAIN result.items /\ result.items.result.t = "dict"
         THEN IF "allow" \in DOMAIN result.items.result.items
              THEN Truthy(result.items.result.items.allow)
              ELSE Truthy(JBool(FALSE))
         ELSE IF "allow" \in DOMAIN result.items THEN Truthy(result.items.allow)
         ELSE Truthy(result)
    ELSE FALSE

\* the bodies the policy service can return for a decision d
OpaBodies(d) ==
    { JBool(d),
      JDict([result |-> JBool(d)]),
      JDict([result |-> JDict([allow |-> JBool(d)])]),
      JDict([allow |-> JBool(d)]) }

\* the policy service answers a check_permission call; the verdict is what
\* the callers of check_permission act on
OpaAnswer(body) ==
    /\ opa_resp' = body
    /\ opa' = IF CheckPermission(body) THEN "allow" ELSE "deny"
    /\ UNCHANGED <<storeVars, sendVars, mapVars, fxVars, sessions, profiles, mail_ok,
                   last, cancelled, gs, ag>>

\* SpecOpa follows organisation tool calls under the verdicts check_permission
\* derives from the policy service's answers
NextOpa ==
    \/ \E d \in BOOLEAN : \E body \in OpaBodies(d) : OpaAnswer(body)
    \/ \E u \in Users, tid \in ThreadIds, shape \in OrgToolShapes : ToolCall(u, tid, shape)
    \/ \E role \in {"super_admin", "organization_admin"} : SwitchRole("u2", role, None)
    \/ CreateThread("u2", "asst_a", None, None, "none")

SpecOpa == Init /\ [][NextOpa]_vars

\* C29: check_permission's verdict is "allow" only for a body that
\* expresses an allow decision; for every deny body it is "deny".
C29_DenyBodiesDenied ==
    opa_resp \in OpaBodies(FALSE) => opa = "deny"


(* --------------------------- SuperAdminAgent --------------------------- *)
agFrame == <<storeVars, sendVars, mapVars, fxVars, sessions, profiles, opa, mail_ok,
             last, cancelled, gs, opa_resp>>

\* process_chat_message: run_assistant returned a run, and
\* _handle_run_with_functions enters wait_for_run_completion
AgStart ==
    /\ ag.pc = "idle"
    /\ ag.run = None
    /\ ag' = [AgIdle EXCEPT !.pc = "wait", !.run = "queued"]
    /\ UNCHANGED agFrame

\* the remote service advances the run; a run in requires_action waits for
\* the tool outputs
AgRemote(st) ==
    /\ ag.run \in {"queued", "in_progress"}
    /\ st \in {"in_progress", "requires_action", "completed", "failed"}
    /\ st # ag.run
    /\ st = "requires_action" => ag.submits < MaxToolSteps
    /\ ag' = [ag EXCEPT !.run = st]
    /\ UNCHANGED agFrame

\* one iteration of wait_for_run_completion's loop: retrieve, return the run
\* on a terminal status, raise TimeoutError past the timeout, else sleep
AgPoll ==
    /\ ag.pc = "wait"
    /\ ag' = IF ag.run \in Terminal THEN [ag EXCEPT !.pc = "returned"]
             ELSE IF ag.elapsed > AgTimeout
                  THEN [ag EXCEPT !.pc = "error", !.err = "timeout"]
             ELSE [ag EXCEPT !.elapsed = @ + 1]
    /\ UNCHANGED agFrame

\* the branches of _handle_run_with_functions on the run it was handed
AgHandle ==
    /\ ag.pc = "returned"
    /\ ag' = IF ag.run = "completed" THEN [ag EXCEPT !.pc = "done"]
             ELSE IF ag.run = "requires_action"
                  THEN [ag EXCEPT !.pc = "wait", !.run = "queued", !.elapsed = 0,
                                  !.submits = @ + 1]
             ELSE [ag EXCEPT !.pc = "error", !.err = "Run failed with status"]
    /\ UNCHANGED agFrame

NextAgent ==
    \/ AgStart
    \/ \E st \in Statuses : AgRemote(st)
    \/ AgPoll
    \/ AgHandle

SpecAgent == Init /\ [][NextAgent]_vars

\* C30: a run that waits for tool outputs is handed to the requires_action
\* branch: the wait never ends in its timeout while the run is in
\* requires_action with no outputs submitted.
C30_RequiresActionObserved ==
    ~(ag.pc = "error" /\ ag.err = "timeout" /\ ag.run = "requires_action")

====
